---- MODULE Spec2Model ----
(***************************************************************************)
(* Model of c3-projection's module dependency pipeline:                    *)
(*   PropertyGraph -> ModuleAggregator.aggregate                           *)
(*                 -> ModuleDependencyCalculator.calculate                 *)
(*                 -> transitive-closure queries.                          *)
(*                                                                         *)
(* Strings.  Every JavaScript string the pipeline compares (node ids,      *)
(* file paths, import specifiers) is modelled by one shape, so that an     *)
(* edge target can be a node id AND a path at once, as in the code:        *)
(*   [abs |-> leading "/" ?, segs |-> the "/"-separated segments]          *)
(* A segment is [w |-> its "-"-separated words, x |-> its "."-extensions], *)
(* e.g. "a-b" is [w |-> <<"a","b">>, x |-> <<>>] and "File.ts" is          *)
(* [w |-> <<"File">>, x |-> <<"ts">>].  "." and ".." are the segments      *)
(* Dot and DotDot.  Strings have no trailing "/".                          *)
(* Module ids are strings of another alphabet ("module-a-b"): the sequence *)
(* of the "-"-separated tokens after the "module-" prefix.                 *)
(***************************************************************************)
EXTENDS Integers, Sequences, FiniteSets, TLC

VARIABLES nodes, edges, aggregationConfig, modules, stats, pc, result, fs, builds

vars == <<nodes, edges, aggregationConfig, modules, stats, pc, result, fs, builds>>

----------------------------------------------------------------------------
(* Bounds *)

MaxEdges == 2

MaxLinks == 4

----------------------------------------------------------------------------
(* String constructors *)

Seg(name) == [w |-> <<name>>, x |-> <<>>]

SegX(name, ext) == [w |-> <<name>>, x |-> <<ext>>]

Hy(a, b) == [w |-> <<a, b>>, x |-> <<>>]

Dot == Seg(".")

DotDot == Seg("..")

EmptySeg == Seg("")

AbsPath(segs) == [abs |-> TRUE, segs |-> segs]

RelPath(segs) == [abs |-> FALSE, segs |-> segs]

Id(name) == RelPath(<<Seg(name)>>)

Last(s) == s[Len(s)]

Front(s) == SubSeq(s, 1, Len(s) - 1)

(* Working directory of the process: path.resolve prepends it to a path that
   is still relative after all arguments are consumed. *)
Cwd == AbsPath(<<Seg("cwd")>>)

----------------------------------------------------------------------------
(* node:path *)

RECURSIVE NormSegs(_, _, _)
NormSegs(segs, abs, acc) ==
    IF segs = <<>> THEN acc
    ELSE LET s == Head(segs) IN
         IF s = Dot \/ s = EmptySeg THEN NormSegs(Tail(segs), abs, acc)
         ELSE IF s = DotDot
              THEN IF acc # <<>> /\ Last(acc) # DotDot
                   THEN NormSegs(Tail(segs), abs, Front(acc))
                   ELSE IF abs THEN NormSegs(Tail(segs), abs, acc)
                        ELSE NormSegs(Tail(segs), abs, Append(acc, DotDot))
              ELSE NormSegs(Tail(segs), abs, Append(acc, s))

normalize(p) ==
    LET r == NormSegs(p.segs, p.abs, <<>>) IN
    IF ~p.abs /\ r = <<>> THEN RelPath(<<Dot>>)
    ELSE [abs |-> p.abs, segs |-> r]

dirname(p) ==
    IF Len(p.segs) <= 1
    THEN IF p.abs THEN AbsPath(<<>>) ELSE RelPath(<<Dot>>)
    ELSE [abs |-> p.abs, segs |-> Front(p.segs)]

resolve(from, to) ==
    IF to.abs THEN normalize(to)
    ELSE IF from.abs THEN normalize(AbsPath(from.segs \o to.segs))
    ELSE normalize(AbsPath(Cwd.segs \o from.segs \o to.segs))

basename(p) == IF p.segs = <<>> THEN EmptySeg ELSE Last(p.segs)

(* path.join(dir, name...) *)
join(p, names) == normalize([abs |-> p.abs, segs |-> p.segs \o names])

(* The length of the longest common prefix of two segment lists *)
RECURSIVE CommonPrefix(_, _)
CommonPrefix(a, b) ==
    IF a = <<>> \/ b = <<>> \/ Head(a) # Head(b) THEN 0
    ELSE 1 + CommonPrefix(Tail(a), Tail(b))

(* path.relative(from, to).split(path.sep).filter(Boolean): both paths are
   made absolute, the common directories are dropped, one ".." stands for
   each directory left of from *)
UpAndDown(f, t, k) == [i \in 1..(Len(f) - k) |-> DotDot] \o SubSeq(t, k + 1, Len(t))

DropCommon(f, t) == UpAndDown(f, t, CommonPrefix(f, t))

relativeParts(from, to) == DropCommon(resolve(Cwd, from).segs, resolve(Cwd, to).segs)

IsPrefix(a, b) == Len(a) <= Len(b) /\ SubSeq(b, 1, Len(a)) = a

(* The text of segment a is the beginning of the text of segment b, as far
   as whole words and extensions go: "a" begins "a", "a-b" and "a.ts" *)
SegStartsWith(b, a) ==
    \/ a.x = <<>> /\ IsPrefix(a.w, b.w)
    \/ a.w = b.w /\ IsPrefix(a.x, b.x)

(* String.prototype.startsWith on two paths: a test on the text, not on the
   directories, so that "/a-b" starts with "/a" *)
startsWith(p, prefix) ==
    IF prefix.segs = <<>> THEN (prefix.abs => p.abs)
    ELSE /\ p.abs = prefix.abs
         /\ Len(p.segs) >= Len(prefix.segs)
         /\ SubSeq(p.segs, 1, Len(prefix.segs) - 1) = Front(prefix.segs)
         /\ SegStartsWith(p.segs[Len(prefix.segs)], Last(prefix.segs))

(* String.prototype.startsWith('./') || startsWith('../') *)
IsRelativeSpecifier(s) ==
    /\ ~s.abs
    /\ Len(s.segs) >= 2
    /\ s.segs[1] \in {Dot, DotDot}

(* str + '.ext' *)
AppendExt(p, e) ==
    IF p.segs = <<>>
    THEN [abs |-> p.abs, segs |-> <<SegX("", e)>>]
    ELSE [abs |-> p.abs,
          segs |-> Append(Front(p.segs),
                          [w |-> Last(p.segs).w, x |-> Append(Last(p.segs).x, e)])]

(* str.replace(/\.from$/, '.to') *)
ReplaceExt(p, from, to) ==
    IF p.segs # <<>> /\ Last(p.segs).x # <<>> /\ Last(Last(p.segs).x) = from
    THEN [abs |-> p.abs,
          segs |-> Append(Front(p.segs),
                          [w |-> Last(p.segs).w,
                           x |-> Append(Front(Last(p.segs).x), to)])]
    ELSE p

(* str + '/index.ext'; appended to the root "/" this is "//index.ext" *)
AppendIndex(p, e) ==
    IF p.segs = <<>>
    THEN [abs |-> p.abs, segs |-> <<EmptySeg, SegX("index", e)>>]
    ELSE [abs |-> p.abs, segs |-> Append(p.segs, SegX("index", e))]

----------------------------------------------------------------------------
(* JavaScript Set and Map: a Set is the sequence of its members in insertion
   order; a Map lookup over a list of entries returns the last entry set. *)

Range(s) == {s[i] : i \in 1..Len(s)}

SetAdd(s, v) == IF v \in Range(s) THEN s ELSE Append(s, v)

(* The empty string; like undefined it is falsy, and it stands for both. *)
None == RelPath(<<>>)

Truthy(s) == s # None

----------------------------------------------------------------------------
(* The property graph (c3-parsing): the nodes and edges the examples feed in *)

FileNode(id, segs, from, to) ==
    [id |-> Id(id), type |-> "file", labels |-> {"CodeElement", "File"},
     domain |-> "code", hasFilePath |-> TRUE, filePath |-> AbsPath(segs),
     startLine |-> from, endLine |-> to]

(* A startLine or endLine of 0 is line metadata that is missing: the code
   reads both through `|| 0`. *)
NodeUniverse ==
    << FileNode("f1", <<Seg("a"), Seg("b"), SegX("x", "ts")>>, 0, 0),
       [FileNode("f2", <<Hy("a", "b"), SegX("y", "ts")>>, 1, 10)
            EXCEPT !.labels = {"CodeElement", "File", "Test"}],
       FileNode("f3", <<Seg("c"), SegX("w", "ts")>>, 1, 100),
       FileNode("f4", <<Seg("c"), SegX("w", "tsx")>>, 1, 50),
       FileNode("f5", <<Seg("distance"), SegX("v", "ts")>>, 5, 0),
       [FileNode("k1", <<Seg("e"), SegX("q", "ts")>>, 3, 9)
            EXCEPT !.type = "class", !.labels = {"CodeElement", "Class"}] >>

Imports(from, to) == [type |-> "imports", fromNodeId |-> Id(from), toNodeId |-> to]

EdgeUniverse ==
    { Imports("f1", Id("f3")),
      Imports("f1", Id("f4")),
      Imports("f3", Id("f4")),
      Imports("f3", Id("f1")),
      Imports("f2", Id("f3")),
      Imports("f1", Id("f2")),
      Imports("f3", RelPath(<<Dot, Seg("w")>>)),
      Imports("f1", RelPath(<<DotDot, DotDot, Seg("c"), SegX("w", "js")>>)),
      Imports("f5", RelPath(<<DotDot, Seg("c"), Seg("w")>>)),
      Imports("f1", RelPath(<<DotDot, DotDot, Seg("e"), Seg("q")>>)),
      Imports("f1", Id("lodash")),
      Imports("f4", AbsPath(<<Seg("distance"), SegX("v", "ts")>>)),
      Imports("zz", Id("f3")),
      [type |-> "calls", fromNodeId |-> Id("f5"), toNodeId |-> Id("f3")] }

IndexInUniverse(n) == CHOOSE i \in 1..Len(NodeUniverse) : NodeUniverse[i] = n

----------------------------------------------------------------------------
(* ModuleAggregator *)

DIRECTORY == "directory"

TOP_LEVEL == "top-level"

PACKAGE == "package"

CUSTOM == "custom"

(* `module-${modulePath.replace(/[/\\]/g, '-').replace(/^-/, '')}`: every "/"
   becomes a "-", so the id is the sequence of the "-"-separated tokens of the
   path; the "-" that comes from a leading "/" is removed. *)
RECURSIVE SegTokens(_, _)
SegTokens(w, x) ==
    IF Len(w) = 1 THEN <<[w |-> w[1], x |-> x]>>
    ELSE <<[w |-> w[1], x |-> <<>>]>> \o SegTokens(Tail(w), x)

RECURSIVE PathTokens(_)
PathTokens(segs) ==
    IF segs = <<>> THEN <<>>
    ELSE SegTokens(Head(segs).w, Head(segs).x) \o PathTokens(Tail(segs))

generateModuleId(modulePath) == PathTokens(modulePath.segs)

(* fs.access(path) resolves: the file system answers and has the file *)
access(p) == ~fs.fails /\ p \in fs.files

(* The while loop of findNearestPackage, from currentDir upwards *)
RECURSIVE nearestPackageFrom(_, _, _)
nearestPackageFrom(currentDir, filePath, rootPath) ==
    IF ~startsWith(currentDir, rootPath) THEN dirname(filePath)
    ELSE IF access(join(currentDir, <<SegX("package", "json")>>)) THEN currentDir
    ELSE IF access(join(currentDir, <<SegX("tsconfig", "json")>>)) THEN currentDir
    ELSE LET parentDir == dirname(currentDir)
         IN IF parentDir = currentDir THEN dirname(filePath)
            ELSE nearestPackageFrom(parentDir, filePath, rootPath)

(* Mutant: the search starts at the parent of the file's directory. *)
findNearestPackage_fromParent(filePath, rootPath) ==
    nearestPackageFrom(dirname(dirname(filePath)), filePath, rootPath)

findNearestPackage(filePath, rootPath) ==
    nearestPackageFrom(dirname(filePath), filePath, rootPath)

(* case TOP_LEVEL: the first two directories below rootPath, the first one,
   or rootPath itself *)
topLevelPath(rootPath, parts) ==
    IF Len(parts) >= 3 THEN join(rootPath, SubSeq(parts, 1, 2))
    ELSE IF Len(parts) >= 2 THEN join(rootPath, SubSeq(parts, 1, 1))
    ELSE rootPath

(* Mutant: a level the switch does not name is grouped as TOP_LEVEL. *)
getModulePathForFile_defaultTopLevel(file, rootPath, level) ==
    IF level = DIRECTORY THEN dirname(file.filePath)
    ELSE IF level = PACKAGE THEN findNearestPackage(file.filePath, rootPath)
    ELSE topLevelPath(rootPath, relativeParts(rootPath, file.filePath))

(* switch (level): DIRECTORY, TOP_LEVEL, PACKAGE, and the default branch for
   every other value *)
getModulePathForFile(file, rootPath, level) ==
    IF level = DIRECTORY THEN dirname(file.filePath)
    ELSE IF level = TOP_LEVEL
    THEN topLevelPath(rootPath, relativeParts(rootPath, file.filePath))
    ELSE IF level = PACKAGE THEN findNearestPackage(file.filePath, rootPath)
    ELSE dirname(file.filePath)

(* The pairs <<p, w>> of words of the model's alphabet with p a proper
   substring of w. *)
ProperSubstrings == {<<"dist", "distance">>}

(* String.prototype.includes(pattern), for a pattern that is one word (no "/",
   "-" or "."): the pattern lies inside one word or one extension. *)
Includes(str, pattern) ==
    \E i \in 1..Len(str.segs) :
        LET parts == Range(str.segs[i].w) \cup Range(str.segs[i].x) IN
        \E part \in parts : pattern = part \/ <<pattern, part>> \in ProperSubstrings

(* Mutant: only the Test label is looked at. *)
shouldIncludeFile_testsOnly(node, config) ==
    ~(~config.includeTests /\ "Test" \in node.labels)

shouldIncludeFile(node, config) ==
    /\ \A i \in 1..Len(config.excludePatterns) :
           ~Includes(node.filePath, config.excludePatterns[i])
    /\ ~(~config.includeTests /\ "Test" \in node.labels)

RECURSIVE SumLines(_)
SumLines(files) ==
    IF files = <<>> THEN 0
    ELSE (Head(files).endLine - Head(files).startLine) + SumLines(Tail(files))

calculateMetrics(files) ==
    [fileCount |-> Len(files), totalLines |-> SumLines(files),
     dependencyCount |-> 0, dependentCount |-> 0]

createModule(modulePath, files) ==
    [id |-> generateModuleId(modulePath),
     name |-> basename(modulePath),
     path |-> modulePath,
     files |-> [i \in 1..Len(files) |-> files[i].id],
     dependencies |-> <<>>,
     dependents |-> <<>>,
     metrics |-> calculateMetrics(files)]

(* grouped: the Map modulePath -> Node[], its keys in insertion order *)
RECURSIVE groupFilesByLevel(_, _, _, _)

(* Mutant: the entry of the Map is set to [] for every file, not only when
   the path is new. *)
groupFilesByLevel_resetsEntry(files, rootPath, level, grouped) ==
    IF files = <<>> THEN grouped
    ELSE LET file == Head(files)
             modulePath == getModulePathForFile(file, rootPath, level)
             known == \E i \in 1..Len(grouped) : grouped[i].path = modulePath
             with == IF known THEN grouped
                     ELSE Append(grouped, [path |-> modulePath, files |-> <<>>])
             next == [i \in 1..Len(with) |->
                        IF with[i].path = modulePath
                        THEN [with[i] EXCEPT !.files = <<file>>]
                        ELSE with[i]]
         IN groupFilesByLevel(Tail(files), rootPath, level, next)

groupFilesByLevel(files, rootPath, level, grouped) ==
    IF files = <<>> THEN grouped
    ELSE LET file == Head(files)
             modulePath == getModulePathForFile(file, rootPath, level)
             known == \E i \in 1..Len(grouped) : grouped[i].path = modulePath
             with == IF known THEN grouped
                     ELSE Append(grouped, [path |-> modulePath, files |-> <<>>])
             next == [i \in 1..Len(with) |->
                        IF with[i].path = modulePath
                        THEN [with[i] EXCEPT !.files = Append(@, file)]
                        ELSE with[i]]
         IN groupFilesByLevel(Tail(files), rootPath, level, next)

(* filePath.includes(pattern) with filePath undefined: a TypeError *)
shouldIncludeFileThrows(node, config) ==
    ~node.hasFilePath /\ Len(config.excludePatterns) > 0

(* path.dirname(undefined), path.relative(rootPath, undefined): a TypeError
   in every branch of the switch *)
getModulePathForFileThrows(file) == ~file.hasFilePath

(* The promise aggregate returns is rejected *)
aggregateThrows(gnodes, rootPath, config) ==
    \E i \in 1..Len(gnodes) :
        /\ gnodes[i].type = "file"
        /\ gnodes[i].domain = "code"
        /\ \/ shouldIncludeFileThrows(gnodes[i], config)
           \/ /\ shouldIncludeFile(gnodes[i], config)
              /\ getModulePathForFileThrows(gnodes[i])

aggregate(gnodes, rootPath, config) ==
    LET codeFiles == SelectSeq(gnodes, LAMBDA n :
                        /\ n.type = "file"
                        /\ n.domain = "code"
                        /\ shouldIncludeFile(n, config))
        filesByModule == groupFilesByLevel(codeFiles, rootPath, config.level, <<>>)
    IN [i \in 1..Len(filesByModule) |->
            createModule(filesByModule[i].path, filesByModule[i].files)]

----------------------------------------------------------------------------
(* ModuleDependencyCalculator.calculate *)

(* Mutant: a file id that is no key of the map maps to the first module. *)
fileToModule_firstModule(mods, fileId) ==
    LET holders == {i \in 1..Len(mods) : fileId \in Range(mods[i].files)}
    IN IF holders = {} THEN (IF mods = <<>> THEN 0 ELSE 1)
       ELSE CHOOSE i \in holders : \A j \in holders : j <= i

(* fileToModule: the index in the list of the module a file id maps to (the
   last module listing it), 0 for a file id that is no key of the map. *)
fileToModule(mods, fileId) ==
    LET holders == {i \in 1..Len(mods) : fileId \in Range(mods[i].files)}
    IN IF holders = {} THEN 0 ELSE CHOOSE i \in holders : \A j \in holders : j <= i

(* Mutant: every node with a filePath is indexed. *)
IsIndexedNode_anyNode(n) == n.hasFilePath /\ Truthy(n.filePath)

IsIndexedNode(n) ==
    /\ n.hasFilePath /\ Truthy(n.filePath)
    /\ (n.type = "file" \/ "File" \in n.labels)

pathToNodeId(gnodes, key) ==
    LET hits == {i \in 1..Len(gnodes) :
                    /\ IsIndexedNode(gnodes[i])
                    /\ key \in {gnodes[i].filePath, normalize(gnodes[i].filePath)}}
    IN IF hits = {} THEN None
       ELSE gnodes[CHOOSE i \in hits : \A j \in hits : j <= i].id

nodeIdToPath(gnodes, id) ==
    LET hits == {i \in 1..Len(gnodes) : IsIndexedNode(gnodes[i]) /\ gnodes[i].id = id}
    IN IF hits = {} THEN None
       ELSE gnodes[CHOOSE i \in hits : \A j \in hits : j <= i].filePath

(* Mutant: '.tsx' is tried before '.ts'. *)
attempts_tsxFirst(resolved) ==
    << resolved,
       normalize(resolved),
       ReplaceExt(resolved, "js", "ts"),
       ReplaceExt(resolved, "jsx", "tsx"),
       AppendExt(resolved, "tsx"),
       AppendExt(resolved, "ts"),
       AppendExt(resolved, "js"),
       AppendIndex(resolved, "ts"),
       AppendIndex(resolved, "js") >>

attempts(resolved) ==
    << resolved,
       normalize(resolved),
       ReplaceExt(resolved, "js", "ts"),
       ReplaceExt(resolved, "jsx", "tsx"),
       AppendExt(resolved, "ts"),
       AppendExt(resolved, "tsx"),
       AppendExt(resolved, "js"),
       AppendIndex(resolved, "ts"),
       AppendIndex(resolved, "js") >>

(* for (const attempt of attempts) { resolvedNodeId = get(attempt); if (..) break; } *)
FirstAttempt(gnodes, tries) ==
    LET found == {i \in 1..Len(tries) : Truthy(pathToNodeId(gnodes, tries[i]))}
    IN IF found = {} THEN None
       ELSE pathToNodeId(gnodes, tries[CHOOSE i \in found : \A j \in found : i <= j])

resolveRelative(gnodes, fromNodeId, target) ==
    LET sourceFilePath == nodeIdToPath(gnodes, fromNodeId) IN
    IF Truthy(sourceFilePath) /\ IsRelativeSpecifier(target)
    THEN FirstAttempt(gnodes, attempts(resolve(dirname(sourceFilePath), target)))
    ELSE None

(* Mutant: the specifier itself is not looked up in the path index. *)
resolveImport_relativeOnly(gnodes, fromNodeId, target) ==
    resolveRelative(gnodes, fromNodeId, target)

resolveImport(gnodes, fromNodeId, target) ==
    LET direct == pathToNodeId(gnodes, target) IN
    IF Truthy(direct) THEN direct ELSE resolveRelative(gnodes, fromNodeId, target)

(* Mutant: the dependency is pushed without the Set's membership test. *)
addDependency_push(module, moduleId) ==
    [module EXCEPT !.dependencies = Append(@, moduleId)]

addDependency(module, moduleId) ==
    [module EXCEPT !.dependencies = SetAdd(@, moduleId)]

(* Mutant: the dependent is pushed without the Set's membership test. *)
addDependent_push(module, moduleId) ==
    [module EXCEPT !.dependents = Append(@, moduleId)]

addDependent(module, moduleId) ==
    [module EXCEPT !.dependents = SetAdd(@, moduleId)]

(* Mutant: the test for an import within one module is missing. *)
processEdge_noSelfSkip(st, gnodes, edge) ==
    LET src == fileToModule(st.mods, edge.fromNodeId)
        known == fileToModule(st.mods, edge.toNodeId) # 0
        resolvedNodeId == resolveImport(gnodes, edge.fromNodeId, edge.toNodeId)
        targetNodeId == IF known THEN edge.toNodeId ELSE resolvedNodeId
        tgt == fileToModule(st.mods, targetNodeId)
    IN IF src = 0 \/ (~known /\ ~Truthy(resolvedNodeId)) \/ tgt = 0 THEN st
       ELSE [st EXCEPT
                !.mods = [[st.mods EXCEPT ![src] =
                                [@ EXCEPT !.dependencies = SetAdd(@, st.mods[tgt].id)]]
                             EXCEPT ![tgt] =
                                [@ EXCEPT !.dependents = SetAdd(@, st.mods[src].id)]]]

(* One iteration of the loop over the import edges; st holds the module list
   and the four counters. *)
processEdge(st, gnodes, edge) ==
    LET src == fileToModule(st.mods, edge.fromNodeId)
        known == fileToModule(st.mods, edge.toNodeId) # 0
        resolvedNodeId == resolveImport(gnodes, edge.fromNodeId, edge.toNodeId)
        targetNodeId == IF known THEN edge.toNodeId ELSE resolvedNodeId
        st1 == IF known THEN st ELSE [st EXCEPT !.resolved = @ + 1]
        tgt == fileToModule(st.mods, targetNodeId)
    IN IF src = 0 THEN st
       ELSE IF ~known /\ ~Truthy(resolvedNodeId)
            THEN [st EXCEPT !.unresolved = @ + 1]
       ELSE IF tgt = 0 THEN st1
       ELSE IF st.mods[src].id = st.mods[tgt].id
            THEN [st1 EXCEPT !.sameModule = @ + 1]
       ELSE [st1 EXCEPT
                !.crossModule = @ + 1,
                !.mods = [[st.mods EXCEPT ![src] = addDependency(@, st.mods[tgt].id)]
                             EXCEPT ![tgt] = addDependent(@, st.mods[src].id)]]

RECURSIVE processEdges(_, _, _)
processEdges(st, gnodes, importEdges) ==
    IF importEdges = <<>> THEN st
    ELSE processEdges(processEdge(st, gnodes, Head(importEdges)), gnodes,
                      Tail(importEdges))

(* Mutant: the metrics are built anew around the two counts. *)
updateMetrics_freshMetrics(module) ==
    [module EXCEPT !.metrics = [fileCount |-> 0, totalLines |-> 0,
                                dependencyCount |-> Len(module.dependencies),
                                dependentCount |-> Len(module.dependents)]]

(* Mutant: only the dependency count is refreshed. *)
updateMetrics_dependencyOnly(module) ==
    [module EXCEPT !.metrics.dependencyCount = Len(module.dependencies)]

updateMetrics(module) ==
    [module EXCEPT !.metrics.dependencyCount = Len(module.dependencies),
                   !.metrics.dependentCount = Len(module.dependents)]

(* Mutant: the edges are not filtered by type. *)
calculate_anyEdgeType(mods, gnodes, gedges) ==
    LET st == processEdges([mods |-> mods, resolved |-> 0, unresolved |-> 0,
                            sameModule |-> 0, crossModule |-> 0],
                           gnodes, gedges)
    IN [mods |-> [i \in 1..Len(st.mods) |->
                    [st.mods[i] EXCEPT
                        !.metrics.dependencyCount = Len(st.mods[i].dependencies),
                        !.metrics.dependentCount = Len(st.mods[i].dependents)]],
        stats |-> [total |-> Len(gedges), resolved |-> st.resolved,
                   unresolved |-> st.unresolved, sameModule |-> st.sameModule,
                   crossModule |-> st.crossModule]]

(* graph.getEdges().filter(edge => edge.type === EdgeType.IMPORTS) *)
importEdgesOf(gedges) == SelectSeq(gedges, LAMBDA e : e.type = "imports")

(* After the loop over the edges: the counts of every module are refreshed
   and the statistics logged *)
afterEdges(st, total) ==
    [mods |-> [i \in 1..Len(st.mods) |-> updateMetrics(st.mods[i])],
     stats |-> [total |-> total, resolved |-> st.resolved,
                unresolved |-> st.unresolved, sameModule |-> st.sameModule,
                crossModule |-> st.crossModule]]

calculate(mods, gnodes, gedges) ==
    afterEdges(processEdges([mods |-> mods, resolved |-> 0, unresolved |-> 0,
                             sameModule |-> 0, crossModule |-> 0],
                            gnodes, importEdgesOf(gedges)),
               Len(importEdgesOf(gedges)))

----------------------------------------------------------------------------
(* ModuleDependencyCalculator: transitive queries *)

(* Mutant: an id that is no key falls back to the first module. *)
modulesById_fallback(mods, id) ==
    LET hits == {i \in 1..Len(mods) : mods[i].id = id}
    IN IF hits = {} THEN (IF mods = <<>> THEN 0 ELSE 1)
       ELSE CHOOSE i \in hits : \A j \in hits : j <= i

(* new Map(modules.map(m => [m.id, m])).get(id): index of the module, 0 for
   undefined *)
modulesById(mods, id) ==
    LET hits == {i \in 1..Len(mods) : mods[i].id = id}
    IN IF hits = {} THEN 0 ELSE CHOOSE i \in hits : \A j \in hits : j <= i

RECURSIVE traverseDependencies(_, _, _)
RECURSIVE forEachDependency(_, _, _)

(* Mutant: visited holds the current path only; a module is forgotten again
   when its traversal returns. *)
traverseDependencies_pathVisited(id, mods, acc) ==
    IF id \in Range(acc.visited) THEN acc
    ELSE LET acc1 == [acc EXCEPT !.visited = SetAdd(@, id)]
             m == modulesById(mods, id)
         IN IF m = 0 THEN acc
            ELSE [forEachDependency(mods[m].dependencies, mods,
                        [acc1 EXCEPT !.expanded = Append(@, id)])
                      EXCEPT !.visited = acc.visited]

(* traverse(id); acc holds the closure's two sets, visited and transitive, and
   expanded, the log of the calls that went on to loop over a module's
   dependencies *)
traverseDependencies(id, mods, acc) ==
    IF id \in Range(acc.visited) THEN acc
    ELSE LET acc1 == [acc EXCEPT !.visited = SetAdd(@, id)]
             m == modulesById(mods, id)
         IN IF m = 0 THEN acc1
            ELSE forEachDependency(mods[m].dependencies, mods,
                        [acc1 EXCEPT !.expanded = Append(@, id)])

(* Mutant: a dependency already visited is not added to the result. *)
forEachDependency_skipVisited(deps, mods, acc) ==
    IF deps = <<>> THEN acc
    ELSE forEachDependency(Tail(deps), mods,
            traverseDependencies(Head(deps), mods,
                IF Head(deps) \in Range(acc.visited) THEN acc
                ELSE [acc EXCEPT !.transitive = SetAdd(@, Head(deps))]))

(* Mutant: the dependencies are added but not traversed. *)
forEachDependency_direct(deps, mods, acc) ==
    IF deps = <<>> THEN acc
    ELSE forEachDependency(Tail(deps), mods,
                [acc EXCEPT !.transitive = SetAdd(@, Head(deps)),
                            !.visited = SetAdd(@, Head(deps))])

forEachDependency(deps, mods, acc) ==
    IF deps = <<>> THEN acc
    ELSE forEachDependency(Tail(deps), mods,
            traverseDependencies(Head(deps), mods,
                [acc EXCEPT !.transitive = SetAdd(@, Head(deps))]))

NewClosure == [visited |-> <<>>, transitive |-> <<>>, expanded |-> <<>>]

getTransitiveDependencies(moduleId, mods) ==
    traverseDependencies(moduleId, mods, NewClosure).transitive

RECURSIVE traverseDependents(_, _, _)
RECURSIVE forEachDependent(_, _, _)

(* Mutant: the copy of the traversal still follows dependencies. *)
traverseDependents_followsDependencies(id, mods, acc) ==
    IF id \in Range(acc.visited) THEN acc
    ELSE LET acc1 == [acc EXCEPT !.visited = SetAdd(@, id)]
             m == modulesById(mods, id)
         IN IF m = 0 THEN acc1
            ELSE forEachDependent(mods[m].dependencies, mods, acc1)

traverseDependents(id, mods, acc) ==
    IF id \in Range(acc.visited) THEN acc
    ELSE LET acc1 == [acc EXCEPT !.visited = SetAdd(@, id)]
             m == modulesById(mods, id)
         IN IF m = 0 THEN acc1
            ELSE forEachDependent(mods[m].dependents, mods,
                        [acc1 EXCEPT !.expanded = Append(@, id)])

forEachDependent(deps, mods, acc) ==
    IF deps = <<>> THEN acc
    ELSE forEachDependent(Tail(deps), mods,
            traverseDependents(Head(deps), mods,
                [acc EXCEPT !.transitive = SetAdd(@, Head(deps))]))

getTransitiveDependents(moduleId, mods) ==
    traverseDependents(moduleId, mods, NewClosure).transitive

----------------------------------------------------------------------------
(* ModuleProjection: the Map of modules, getCycles, getMetrics *)

(* this.modules.set(m.id, m): a new key goes to the end, a known key keeps
   its place and takes the new value *)
mapSet(map, m) ==
    IF \E i \in 1..Len(map) : map[i].id = m.id
    THEN [i \in 1..Len(map) |-> IF map[i].id = m.id THEN m ELSE map[i]]
    ELSE Append(map, m)

(* The constructor's forEach over the modules; the result is the Map's
   values() in iteration order *)
RECURSIVE projectionModules(_, _)
projectionModules(mods, map) ==
    IF mods = <<>> THEN map
    ELSE projectionModules(Tail(mods), mapSet(map, Head(mods)))

getModules(mods) == projectionModules(mods, <<>>)

SetDelete(set, elem) == SelectSeq(set, LAMBDA e : e # elem)

(* currentPath.findIndex(m => m.id === depId), 0 for -1 *)
findIndex(path, id) ==
    LET hits == {i \in 1..Len(path) : path[i] = id}
    IN IF hits = {} THEN 0 ELSE CHOOSE i \in hits : \A j \in hits : i <= j

RECURSIVE dfs(_, _, _)
RECURSIVE dfsDependencies(_, _, _)

(* Mutant: a module leaves visited again when its dfs returns. *)
dfs_forgetsVisited(moduleId, pmods, acc) ==
    LET m == modulesById(pmods, moduleId)
    IN IF m = 0 THEN acc
       ELSE LET acc1 == [acc EXCEPT !.visited = SetAdd(@, moduleId),
                                    !.recursionStack = SetAdd(@, moduleId),
                                    !.currentPath = Append(@, moduleId),
                                    !.expanded = Append(@, moduleId)]
                acc2 == dfsDependencies(pmods[m].dependencies, pmods, acc1)
            IN [acc2 EXCEPT !.currentPath = Front(@),
                            !.recursionStack = SetDelete(@, moduleId),
                            !.visited = SetDelete(@, moduleId)]

(* dfs(moduleId) over the Map's values pmods. acc holds visited,
   recursionStack, currentPath and cycles; a module on the path or in a cycle
   is written as its key; expanded logs the calls that found a module. *)
dfs(moduleId, pmods, acc) ==
    LET m == modulesById(pmods, moduleId)
    IN IF m = 0 THEN acc
       ELSE LET acc1 == [acc EXCEPT !.visited = SetAdd(@, moduleId),
                                    !.recursionStack = SetAdd(@, moduleId),
                                    !.currentPath = Append(@, moduleId),
                                    !.expanded = Append(@, moduleId)]
                acc2 == dfsDependencies(pmods[m].dependencies, pmods, acc1)
            IN [acc2 EXCEPT !.currentPath = Front(@),
                            !.recursionStack = SetDelete(@, moduleId)]

(* Mutant: the whole current path is reported, not its part from the module
   the dependency leads back to. *)
dfsDependencies_wholePath(deps, pmods, acc) ==
    IF deps = <<>> THEN acc
    ELSE LET depId == Head(deps)
             acc1 == IF depId \notin Range(acc.visited)
                     THEN dfs(depId, pmods, acc)
                     ELSE IF depId \in Range(acc.recursionStack)
                     THEN [acc EXCEPT !.cycles = Append(@, acc.currentPath)]
                     ELSE acc
         IN dfsDependencies(Tail(deps), pmods, acc1)

(* for (const depId of module.dependencies) { ... } *)
dfsDependencies(deps, pmods, acc) ==
    IF deps = <<>> THEN acc
    ELSE LET depId == Head(deps)
             cycleStartIdx == findIndex(acc.currentPath, depId)
             acc1 == IF depId \notin Range(acc.visited)
                     THEN dfs(depId, pmods, acc)
                     ELSE IF depId \in Range(acc.recursionStack) /\ cycleStartIdx # 0
                     THEN [acc EXCEPT !.cycles = Append(@,
                              SubSeq(acc.currentPath, cycleStartIdx,
                                     Len(acc.currentPath)))]
                     ELSE acc
         IN dfsDependencies(Tail(deps), pmods, acc1)

(* Mutant: the search starts from the first module only. *)
dfsFromEach_firstOnly(rest, pmods, acc) ==
    IF rest = <<>> THEN acc ELSE dfs(Head(rest).id, pmods, acc)

(* for (const module of this.modules.values()) if (!visited.has(..)) dfs(..) *)
RECURSIVE dfsFromEach(_, _, _)
dfsFromEach(rest, pmods, acc) ==
    IF rest = <<>> THEN acc
    ELSE dfsFromEach(Tail(rest), pmods,
            IF Head(rest).id \in Range(acc.visited) THEN acc
            ELSE dfs(Head(rest).id, pmods, acc))

NewSearch == [visited |-> <<>>, recursionStack |-> <<>>, currentPath |-> <<>>,
              cycles |-> <<>>, expanded |-> <<>>]

getCycles(pmods) == dfsFromEach(pmods, pmods, NewSearch).cycles

RECURSIVE Sum(_)
Sum(ns) == IF ns = <<>> THEN 0 ELSE Head(ns) + Sum(Tail(ns))

(* Math.max(...ns, 0) *)
RECURSIVE MathMax0(_)
MathMax0(ns) ==
    IF ns = <<>> THEN 0
    ELSE LET rest == MathMax0(Tail(ns))
         IN IF Head(ns) > rest THEN Head(ns) ELSE rest

(* Module.getDependencyCount: this.dependencies.size *)
getDependencyCount(m) == Len(m.dependencies)

(* The average is a quotient of two integers, kept as the pair *)
getMetrics(pmods) ==
    LET dependencyCounts == [i \in 1..Len(pmods) |-> getDependencyCount(pmods[i])]
        totalDeps == Sum(dependencyCounts)
        totalFiles == Sum([i \in 1..Len(pmods) |-> Len(pmods[i].files)])
    IN [totalModules |-> Len(pmods),
        totalFiles |-> totalFiles,
        totalDependencies |-> totalDeps,
        averageDependenciesPerModule |->
            IF Len(pmods) > 0 THEN [num |-> totalDeps, den |-> Len(pmods)]
            ELSE [num |-> 0, den |-> 1],
        maxDependencies |-> MathMax0(dependencyCounts),
        cyclicDependencies |-> Len(getCycles(pmods))]

----------------------------------------------------------------------------
(* The projection build: graph construction, aggregate, calculate *)

NoStats == [total |-> 0, resolved |-> 0, unresolved |-> 0, sameModule |-> 0,
            crossModule |-> 0]

NoResult == [op |-> "none", moduleId |-> <<>>, value |-> <<>>, expanded |-> <<>>]

(* ModuleProjectionStrategy.project's defaults *)
DefaultConfig ==
    [level |-> DIRECTORY, includeTests |-> TRUE,
     excludePatterns |-> <<"node_modules", "dist", "coverage", "build">>]

RootPath == AbsPath(<<>>)

(* A file system without files *)
NoFs == [files |-> {}, fails |-> FALSE]

(* A configuration from the caller's options: no patterns, tests left out *)
PlainConfig ==
    [level |-> DIRECTORY, includeTests |-> FALSE, excludePatterns |-> <<>>]

Configs == {DefaultConfig, PlainConfig}

Init ==
    /\ nodes = <<>>
    /\ edges = <<>>
    /\ aggregationConfig = DefaultConfig
    /\ modules = <<>>
    /\ stats = NoStats
    /\ pc = "graph"
    /\ result = NoResult
    /\ fs = NoFs
    /\ builds = <<>>

(* graph.addNode(node); the nodes are added in the order of NodeUniverse *)
AddNode ==
    /\ pc = "graph"
    /\ \E i \in 1..Len(NodeUniverse) :
        /\ \A j \in 1..Len(nodes) : IndexInUniverse(nodes[j]) < i
        /\ nodes' = Append(nodes, NodeUniverse[i])
    /\ UNCHANGED <<edges, aggregationConfig, modules, stats, pc, result, fs, builds>>

(* graph.addEdge(edge) *)
AddEdge ==
    /\ pc = "graph"
    /\ Len(edges) < MaxEdges
    /\ \E e \in EdgeUniverse : edges' = Append(edges, e)
    /\ UNCHANGED <<nodes, aggregationConfig, modules, stats, pc, result, fs, builds>>

Aggregate ==
    /\ pc = "graph"
    /\ \E c \in Configs :
        /\ aggregationConfig' = c
        /\ IF aggregateThrows(nodes, RootPath, c)
           THEN modules' = <<>> /\ pc' = "failed"
           ELSE modules' = aggregate(nodes, RootPath, c) /\ pc' = "aggregated"
    /\ UNCHANGED <<nodes, edges, stats, result, fs, builds>>

Calculate ==
    /\ pc = "aggregated"
    /\ LET r == calculate(modules, nodes, edges) IN
        /\ modules' = r.mods
        /\ stats' = r.stats
    /\ pc' = "calculated"
    /\ UNCHANGED <<nodes, edges, aggregationConfig, result, fs, builds>>

(* project()'s new ModuleProjection(id, metadata, modules), then getMetrics()
   on it as the tests call it *)
GetMetrics ==
    /\ pc = "calculated"
    /\ pc' = "projected"
    /\ result' = [op |-> "getMetrics", moduleId |-> <<>>,
                  value |-> getMetrics(getModules(modules)),
                  expanded |-> <<>>]
    /\ UNCHANGED <<nodes, edges, aggregationConfig, modules, stats, fs, builds>>

Next == AddNode \/ AddEdge \/ Aggregate \/ Calculate \/ GetMetrics

Spec == Init /\ [][Next]_vars

----------------------------------------------------------------------------
(* Vocabulary of the claims about calculate() *)

Calculated == pc \in {"calculated", "projected"}

ModuleIndexes == 1..Len(modules)

ImportEdges == {i \in 1..Len(edges) : edges[i].type = "imports"}

Count(s, v) == Cardinality({i \in 1..Len(s) : s[i] = v})

(* The positions in the edge list of the IMPORTS edges that go from a file
   listed in modules[s] to a file listed in modules[t], by node id. *)
FileEdges(s, t) ==
    {i \in ImportEdges : /\ edges[i].fromNodeId \in Range(modules[s].files)
                         /\ edges[i].toNodeId \in Range(modules[t].files)}

NodeIds == {nodes[i].id : i \in 1..Len(nodes)}

AllTargetsAreNodeIds == \A i \in ImportEdges : edges[i].toNodeId \in NodeIds

(* C1: after calculate() every module's metrics.dependencyCount is the number
   of its dependencies and metrics.dependentCount the number of its
   dependents. *)
C1_CountsMatchSets ==
    Calculated =>
        \A i \in ModuleIndexes :
            /\ modules[i].metrics.dependencyCount
                   = Cardinality(Range(modules[i].dependencies))
            /\ modules[i].metrics.dependentCount
                   = Cardinality(Range(modules[i].dependents))

C1_Witness ==
    /\ Calculated
    /\ \E i, j \in ModuleIndexes :
        /\ modules[i].metrics.dependencyCount = 1
        /\ modules[j].metrics.dependentCount = 1
        /\ modules[j].id \in Range(modules[i].dependencies)

(* C2: after calculate() on aggregated modules no module's id is in its own
   dependencies or dependents; and when every IMPORTS edge joins two files of
   one module, every module is left with 0 dependencies and 0 dependents. *)
C2_NoSelfDependency ==
    Calculated =>
        /\ \A i \in ModuleIndexes :
            /\ modules[i].id \notin Range(modules[i].dependencies)
            /\ modules[i].id \notin Range(modules[i].dependents)
        /\ (\A e \in ImportEdges : \E i \in ModuleIndexes : e \in FileEdges(i, i))
            => \A i \in ModuleIndexes :
                /\ modules[i].dependencies = <<>>
                /\ modules[i].dependents = <<>>
                /\ modules[i].metrics.dependencyCount = 0
                /\ modules[i].metrics.dependentCount = 0

C2_Witness ==
    /\ Calculated
    /\ ImportEdges # {}
    /\ \A e \in ImportEdges : \E i \in ModuleIndexes : e \in FileEdges(i, i)
    /\ stats.sameModule = Len(edges)
    /\ \E i \in ModuleIndexes : Len(modules[i].files) = 2

(* C3: after calculate() on aggregated modules the two relations are exact
   inverses: for every two modules S and T of the list, T.id is in
   S.dependencies if and only if S.id is in T.dependents. *)
C3_ExactInverses ==
    Calculated =>
        \A s, t \in ModuleIndexes :
            modules[t].id \in Range(modules[s].dependencies)
                <=> modules[s].id \in Range(modules[t].dependents)

(* C4: when every IMPORTS edge carries a node id as its target, after
   calculate() a module S has the id t in its dependencies if and only if
   some IMPORTS edge goes from a file listed in S to a file listed in a module
   whose id is t, with t different from S.id. *)
C4_DependenciesAreTheCrossEdges ==
    (Calculated /\ AllTargetsAreNodeIds) =>
        \A s \in ModuleIndexes :
            \A id \in {modules[t].id : t \in ModuleIndexes}
                        \cup Range(modules[s].dependencies) :
                id \in Range(modules[s].dependencies)
                    <=> /\ id # modules[s].id
                        /\ \E t \in ModuleIndexes :
                            modules[t].id = id /\ FileEdges(s, t) # {}

C4_Witness ==
    /\ Calculated /\ AllTargetsAreNodeIds
    /\ Len(edges) = 2
    /\ \E s, t \in ModuleIndexes :
        /\ modules[s].id # modules[t].id
        /\ FileEdges(s, t) # {}
        /\ FileEdges(t, t) # {}
        /\ modules[s].dependencies = <<modules[t].id>>
        /\ modules[t].dependencies = <<>>

(* C5: any number of file-level IMPORTS edges from files of module S to files
   of module T (ids different) give one relationship: T.id occurs once in
   S.dependencies, S.id once in T.dependents, and each count is the number of
   distinct modules related, not the number of edges. *)
C5_EdgesCollapse ==
    Calculated =>
        \A s, t \in ModuleIndexes :
            (modules[s].id # modules[t].id /\ FileEdges(s, t) # {}) =>
                /\ Count(modules[s].dependencies, modules[t].id) = 1
                /\ Count(modules[t].dependents, modules[s].id) = 1
                /\ AllTargetsAreNodeIds =>
                    /\ modules[s].metrics.dependencyCount
                        = Cardinality({modules[u].id : u \in {u \in ModuleIndexes :
                            modules[u].id # modules[s].id /\ FileEdges(s, u) # {}}})
                    /\ modules[t].metrics.dependentCount
                        = Cardinality({modules[u].id : u \in {u \in ModuleIndexes :
                            modules[u].id # modules[t].id /\ FileEdges(u, t) # {}}})

C5_Witness ==
    /\ Calculated
    /\ \E s, t \in ModuleIndexes :
        /\ modules[s].id # modules[t].id
        /\ Cardinality(FileEdges(s, t)) = 2
        /\ edges[1] # edges[2]
        /\ modules[s].dependencies = <<modules[t].id>>
        /\ modules[t].dependents = <<modules[s].id>>
        /\ modules[s].metrics.dependencyCount = 1
        /\ modules[t].metrics.dependentCount = 1

----------------------------------------------------------------------------
(* Queries over module lists built by hand, as the unit tests build them:
   new Module(id, ...), addDependency, addDependent, then a query. *)

Tok(name) == <<[w |-> name, x |-> <<>>]>>

QueryIds == <<Tok("a"), Tok("b"), Tok("c")>>

NewModuleOf(id) ==
    [id |-> id, name |-> Seg(id[1].w), path |-> AbsPath(<<Seg(id[1].w)>>),
     files |-> <<>>, dependencies |-> <<>>, dependents |-> <<>>,
     metrics |-> [fileCount |-> 0, totalLines |-> 0,
                  dependencyCount |-> 0, dependentCount |-> 0]]

RECURSIVE Links(_)
Links(mods) ==
    IF mods = <<>> THEN 0
    ELSE Len(Head(mods).dependencies) + Len(Head(mods).dependents) + Links(Tail(mods))

InitQ ==
    /\ nodes = <<>>
    /\ edges = <<>>
    /\ aggregationConfig = DefaultConfig
    /\ modules = <<>>
    /\ stats = NoStats
    /\ pc = "manual"
    /\ result = NoResult
    /\ fs = NoFs
    /\ builds = <<>>

(* new Module(...), pushed onto the list; ids in the order of QueryIds *)
NewModule ==
    /\ Len(modules) < Len(QueryIds)
    /\ modules' = Append(modules, NewModuleOf(QueryIds[Len(modules) + 1]))
    /\ result' = NoResult
    /\ UNCHANGED <<nodes, edges, aggregationConfig, stats, pc, fs, builds>>

AddDependency ==
    /\ Links(modules) < MaxLinks
    /\ \E i \in 1..Len(modules), id \in Range(QueryIds) :
        /\ id \notin Range(modules[i].dependencies)
        /\ modules' = [modules EXCEPT ![i] = addDependency(@, id)]
    /\ result' = NoResult
    /\ UNCHANGED <<nodes, edges, aggregationConfig, stats, pc, fs, builds>>

AddDependent ==
    /\ Links(modules) < MaxLinks
    /\ \E i \in 1..Len(modules), id \in Range(QueryIds) :
        /\ id \notin Range(modules[i].dependents)
        /\ modules' = [modules EXCEPT ![i] = addDependent(@, id)]
    /\ result' = NoResult
    /\ UNCHANGED <<nodes, edges, aggregationConfig, stats, pc, fs, builds>>

TransitiveDependencies ==
    /\ \E id \in Range(QueryIds) :
        result' = [op |-> "getTransitiveDependencies", moduleId |-> id,
                   value |-> getTransitiveDependencies(id, modules),
                   expanded |-> traverseDependencies(id, modules, NewClosure).expanded]
    /\ UNCHANGED <<nodes, edges, aggregationConfig, modules, stats, pc, fs, builds>>

TransitiveDependents ==
    /\ \E id \in Range(QueryIds) :
        result' = [op |-> "getTransitiveDependents", moduleId |-> id,
                   value |-> getTransitiveDependents(id, modules),
                   expanded |-> traverseDependents(id, modules, NewClosure).expanded]
    /\ UNCHANGED <<nodes, edges, aggregationConfig, modules, stats, pc, fs, builds>>

(* new ModuleProjection(id, metadata, modules).getCycles() *)
Cycles ==
    /\ result' = [op |-> "getCycles", moduleId |-> <<>>,
                  value |-> getCycles(getModules(modules)),
                  expanded |-> dfsFromEach(getModules(modules), getModules(modules),
                                           NewSearch).expanded]
    /\ UNCHANGED <<nodes, edges, aggregationConfig, modules, stats, pc, fs, builds>>

NextQ ==
    \/ NewModule
    \/ AddDependency
    \/ AddDependent
    \/ TransitiveDependencies
    \/ TransitiveDependents
    \/ Cycles

SpecQ == InitQ /\ [][NextQ]_vars

(* The caller goes on building lists and asking as long as it can *)
SpecQFair == SpecQ /\ WF_vars(NextQ)

----------------------------------------------------------------------------
(* Vocabulary of the claims about the transitive queries: reachability over
   the module list, defined as a least fixed point of the relation itself. *)

IdsOfList == {modules[i].id : i \in ModuleIndexes}

DependenciesOf(id) ==
    UNION {Range(modules[i].dependencies) : i \in {j \in ModuleIndexes : modules[j].id = id}}

DependentsOf(id) ==
    UNION {Range(modules[i].dependents) : i \in {j \in ModuleIndexes : modules[j].id = id}}

RECURSIVE DependencyClosure(_)
DependencyClosure(S) ==
    LET T == S \cup UNION {DependenciesOf(x) : x \in S}
    IN IF T = S THEN S ELSE DependencyClosure(T)

RECURSIVE DependentClosure(_)
DependentClosure(S) ==
    LET T == S \cup UNION {DependentsOf(x) : x \in S}
    IN IF T = S THEN S ELSE DependentClosure(T)

(* the ids reachable from id in one or more dependency steps *)
ReachableDependencies(id) == DependencyClosure(DependenciesOf(id))

ReachableDependents(id) == DependentClosure(DependentsOf(id))

OnCycle(id) == id \in ReachableDependencies(id)

Acyclic == \A id \in Range(QueryIds) : ~OnCycle(id)

IsDependenciesResult == result.op = "getTransitiveDependencies"

IsDependentsResult == result.op = "getTransitiveDependents"

(* dependents is the exact inverse of dependencies over the list *)
ExactInverse ==
    /\ \A i \in ModuleIndexes :
        Range(modules[i].dependencies) \cup Range(modules[i].dependents) \subseteq IdsOfList
    /\ \A s, t \in ModuleIndexes :
        modules[t].id \in Range(modules[s].dependencies)
            <=> modules[s].id \in Range(modules[t].dependents)

DependencyEdges ==
    {<<modules[i].id, d>> : i \in ModuleIndexes, d \in Range(QueryIds)}
        \cap {e \in Range(QueryIds) \X Range(QueryIds) : e[2] \in DependenciesOf(e[1])}

IsChainABC ==
    /\ Len(modules) = 3
    /\ DependencyEdges = {<<Tok("a"), Tok("b")>>, <<Tok("b"), Tok("c")>>}

(* C6 as stated: getTransitiveDependencies(m) is the set of ids reachable
   from m over dependencies, the origin m excluded. *)
C6_OriginExcluded ==
    IsDependenciesResult =>
        Range(result.value) = ReachableDependencies(result.moduleId) \ {result.moduleId}

(* C6 amended: getTransitiveDependencies(m) is exactly the set of ids
   reachable from m in one or more dependency steps, on every module list;
   the origin is in the result exactly when it lies on a dependency cycle. *)
C6_ReachableInOneOrMoreSteps ==
    IsDependenciesResult =>
        /\ Range(result.value) = ReachableDependencies(result.moduleId)
        /\ result.moduleId \in Range(result.value) <=> OnCycle(result.moduleId)

C6_Witness ==
    /\ IsDependenciesResult
    /\ OnCycle(result.moduleId)
    /\ Len(result.value) = 3

(* C7: on an acyclic dependency relation getTransitiveDependencies(m) is the
   set of ids reachable in one or more steps, without the origin; for the
   chain A -> B -> C the result for A is {B, C}. *)
C7_AcyclicClosure ==
    (IsDependenciesResult /\ Acyclic) =>
        /\ Range(result.value) = ReachableDependencies(result.moduleId)
        /\ result.moduleId \notin Range(result.value)
        /\ (IsChainABC /\ result.moduleId = Tok("a"))
                => Range(result.value) = {Tok("b"), Tok("c")}

C7_Witness ==
    /\ IsDependenciesResult /\ Acyclic /\ IsChainABC
    /\ result.moduleId = Tok("a")
    /\ result.value = <<Tok("b"), Tok("c")>>

(* C8: when the origin lies on a dependency cycle the query returns, and the
   result holds the origin and every other module of its cycles. *)
C8_CycleIncludesOrigin ==
    (IsDependenciesResult /\ OnCycle(result.moduleId)) =>
        /\ result.moduleId \in Range(result.value)
        /\ \A id \in Range(QueryIds) :
            (id \in ReachableDependencies(result.moduleId)
                /\ result.moduleId \in ReachableDependencies(id))
            => id \in Range(result.value)

C8_Witness ==
    /\ IsDependenciesResult
    /\ Len(modules) = 2
    /\ DependencyEdges = {<<Tok("a"), Tok("b")>>, <<Tok("b"), Tok("a")>>}
    /\ result.moduleId = Tok("a")
    /\ Range(result.value) = {Tok("a"), Tok("b")}

(* C9: on a list where dependents is the exact inverse of dependencies, X is
   in getTransitiveDependents(Y) if and only if Y is in
   getTransitiveDependencies(X); for the chain A -> B -> C,
   getTransitiveDependents(C) = {A, B}. *)
C9_DependentsMirrorDependencies ==
    (IsDependentsResult /\ ExactInverse) =>
        /\ \A x \in Range(QueryIds) :
            x \in Range(result.value)
                <=> result.moduleId \in Range(getTransitiveDependencies(x, modules))
        /\ (IsChainABC /\ result.moduleId = Tok("c"))
                => Range(result.value) = {Tok("a"), Tok("b")}

C9_Witness ==
    /\ IsDependentsResult /\ ExactInverse /\ IsChainABC
    /\ result.moduleId = Tok("c")
    /\ Range(result.value) = {Tok("a"), Tok("b")}

(* C10: both queries return the empty set for a module id that is the id of
   no module of the list. *)
C10_UnknownIdIsEmpty ==
    ((IsDependenciesResult \/ IsDependentsResult) /\ result.moduleId \notin IdsOfList)
        => result.value = <<>>

C10_Witness ==
    /\ IsDependentsResult
    /\ result.moduleId \notin IdsOfList
    /\ result.value = <<>>
    /\ \E i \in ModuleIndexes :
        modules[i].dependencies # <<>> /\ modules[i].dependents # <<>>

----------------------------------------------------------------------------
(* Vocabulary of the claims about getCycles *)

NoDuplicates(seq) == \A i, j \in 1..Len(seq) : seq[i] = seq[j] => i = j

IsCyclesResult == result.op = "getCycles"

HasSelfLoop == \E i \in ModuleIndexes : modules[i].id \in Range(modules[i].dependencies)

(* C11: the two transitive queries and getCycles return on every module list,
   cycles and self-loops included, and no module is expanded twice within one
   call: the log of expansions of a call has no id twice, so it is no longer
   than the module list. *)
C11_ExpandedAtMostOnce ==
    (IsDependenciesResult \/ IsDependentsResult \/ IsCyclesResult)
        => /\ NoDuplicates(result.expanded)
           /\ Len(result.expanded) <= Len(modules)

C11_Witness ==
    /\ IsCyclesResult
    /\ HasSelfLoop
    /\ \E id \in IdsOfList : OnCycle(id) /\ ReachableDependencies(id) # {id}
    /\ Len(modules) = 3
    /\ Range(result.expanded) = IdsOfList

Cyclic == \E id \in IdsOfList : OnCycle(id)

(* the claim's example: A depends on B and C, B depends on A *)
IsScenarioC ==
    /\ Len(modules) = 3
    /\ DependencyEdges = {<<Tok("a"), Tok("b")>>, <<Tok("a"), Tok("c")>>,
                          <<Tok("b"), Tok("a")>>}

(* C12: getCycles returns the empty list exactly when the dependencies
   relation among the modules has no directed cycle; with A -> B, A -> C and
   B -> A some reported cycle contains A and B; the chain A -> B -> C gives no
   cycle. *)
C12_CyclesIffCyclic ==
    IsCyclesResult =>
        /\ (result.value = <<>>) <=> ~Cyclic
        /\ IsScenarioC => \E i \in 1..Len(result.value) :
                            {Tok("a"), Tok("b")} \subseteq Range(result.value[i])
        /\ IsChainABC => Len(result.value) = 0

C12_Witness ==
    /\ IsCyclesResult /\ IsScenarioC
    /\ result.value = << <<Tok("a"), Tok("b")>> >>

SameSetTwice ==
    \E i, j \in 1..Len(result.value) :
        i # j /\ Range(result.value[i]) = Range(result.value[j])

(* C13 as stated: there are module lists for which two entries of the list
   getCycles returns consist of the same set of modules; a caller that keeps
   building lists and asking for their cycles comes to see such a result. *)
C13_SameCycleReportedTwice == <>(IsCyclesResult /\ SameSetTwice)

(* C13, amended: no two entries of the list getCycles returns consist of the
   same set of modules. Every entry is the path from a module on the
   recursion stack to the module whose dependency led back to it, each module
   is searched once, and so every entry has its own closing dependency. *)
C13_NoCycleReportedTwice == IsCyclesResult => ~SameSetTwice

(* Two cycles through one module, each entered from the other's side, and one
   entry for each *)
C13_Witness ==
    /\ IsCyclesResult
    /\ Len(modules) = 3
    /\ \A id \in IdsOfList : OnCycle(id)
    /\ Len(result.value) >= 2
    /\ \E i, j \in 1..Len(result.value) :
            i # j /\ Range(result.value[i]) \cap Range(result.value[j]) # {}

----------------------------------------------------------------------------
(* Vocabulary of the claims about the projection's metrics and aggregate() *)

IsMetricsResult == result.op = "getMetrics"

DistinctModuleIds == \A i, j \in ModuleIndexes : modules[i].id = modules[j].id => i = j

MetricsAreTheSums ==
    LET counts == [i \in ModuleIndexes |-> modules[i].metrics.dependencyCount]
    IN /\ result.value.totalModules = Len(modules)
       /\ result.value.totalFiles = Sum([i \in ModuleIndexes |-> Len(modules[i].files)])
       /\ result.value.totalDependencies = Sum(counts)
       /\ \A i \in ModuleIndexes : counts[i] <= result.value.maxDependencies
       /\ result.value.maxDependencies \in Range(counts) \cup {0}
       /\ modules = <<>> => result.value.maxDependencies = 0
       /\ result.value.cyclicDependencies = Len(getCycles(getModules(modules)))

(* C14: for the projection built from the modules that aggregate returned and
   calculate filled, getMetrics gives totalModules = the number of these
   modules, totalFiles = the sum of their file counts, totalDependencies = the
   sum of their metrics.dependencyCount, maxDependencies = the largest of
   these counts (0 without modules) and cyclicDependencies = the length of
   getCycles(). *)
C14_MetricsOfTheModules == IsMetricsResult => MetricsAreTheSums

(* The same on the lists whose module ids are pairwise distinct *)
C14_MetricsOfDistinctModules ==
    (IsMetricsResult /\ DistinctModuleIds) => MetricsAreTheSums

Aggregated == pc # "graph"

FilesOfModules == UNION {Range(modules[i].files) : i \in ModuleIndexes}

MatchesExcludePattern(n) ==
    \E i \in 1..Len(aggregationConfig.excludePatterns) :
        Includes(n.filePath, aggregationConfig.excludePatterns[i])

(* C15: after aggregate, for every graph and configuration, no file node
   whose filePath contains one of the configuration's excludePatterns as a
   substring is in the files of any module. *)
C15_ExcludedFilesInNoModule ==
    Aggregated =>
        \A i \in 1..Len(nodes) :
            (nodes[i].type = "file" /\ MatchesExcludePattern(nodes[i]))
                => nodes[i].id \notin FilesOfModules

(* /distance/v.ts contains "dist" and is left out, the other files are in *)
C15_Witness ==
    /\ Aggregated
    /\ aggregationConfig.excludePatterns # <<>>
    /\ \E i \in 1..Len(nodes) :
        /\ nodes[i].type = "file" /\ MatchesExcludePattern(nodes[i])
        /\ nodes[i].id \notin FilesOfModules
    /\ FilesOfModules # {}

(* C16: module ids are injective in the module path: the modules aggregate
   returns have pairwise different ids, and the projection holding them keeps
   every one of them. *)
C16_ModuleIdsDistinct ==
    Aggregated =>
        /\ \A i, j \in ModuleIndexes :
                modules[i].path # modules[j].path => modules[i].id # modules[j].id
        /\ DistinctModuleIds
        /\ Len(getModules(modules)) = Len(modules)

NodeOfFile(id) == nodes[CHOOSE i \in 1..Len(nodes) : nodes[i].id = id]

Max0(n) == IF n > 0 THEN n ELSE 0

ClampedLines(m) ==
    Sum([k \in 1..Len(m.files) |->
            Max0(NodeOfFile(m.files[k]).endLine - NodeOfFile(m.files[k]).startLine)])

(* C17: a module's totalLines is the sum over its files of
   max(0, endLine - startLine), a missing line number counting as 0; it is
   never negative; files with lines 1..100 and 1..50 give 148. *)
C17_TotalLinesClamped ==
    Aggregated =>
        \A i \in ModuleIndexes :
            /\ modules[i].metrics.totalLines = ClampedLines(modules[i])
            /\ modules[i].metrics.totalLines >= 0

(* The same on the graphs in which no file ends before it starts *)
C17_TotalLinesOfOrderedFiles ==
    (Aggregated /\ \A k \in 1..Len(nodes) : nodes[k].endLine >= nodes[k].startLine)
        => \A i \in ModuleIndexes :
            modules[i].metrics.totalLines = ClampedLines(modules[i])

----------------------------------------------------------------------------
(* Vocabulary of the claims about import resolution *)

HasNode(name) == \E i \in 1..Len(nodes) : nodes[i].id = Id(name)

(* The edges calculate() sends to the relative resolution: IMPORTS edges from
   an indexed file whose target is no file of a module and no indexed path *)
RelativeImports ==
    {i \in ImportEdges :
        /\ IsRelativeSpecifier(edges[i].toNodeId)
        /\ Truthy(nodeIdToPath(nodes, edges[i].fromNodeId))
        /\ fileToModule(modules, edges[i].toNodeId) = 0
        /\ ~Truthy(pathToNodeId(nodes, edges[i].toNodeId))}

(* The candidates in the order the claim lists them *)
CandidatesInOrder(p) ==
    << p, normalize(p), ReplaceExt(p, "js", "ts"), ReplaceExt(p, "jsx", "tsx"),
       AppendExt(p, "ts"), AppendExt(p, "tsx"), AppendExt(p, "js"),
       AppendIndex(p, "ts"), AppendIndex(p, "js") >>

FirstPresentWins(i) ==
    LET from == nodeIdToPath(nodes, edges[i].fromNodeId)
        tries == CandidatesInOrder(resolve(dirname(from), edges[i].toNodeId))
        found == resolveImport(nodes, edges[i].fromNodeId, edges[i].toNodeId)
    IN IF \A k \in 1..Len(tries) : ~Truthy(pathToNodeId(nodes, tries[k]))
       THEN found = None
       ELSE \E k \in 1..Len(tries) :
                /\ Truthy(pathToNodeId(nodes, tries[k]))
                /\ found = pathToNodeId(nodes, tries[k])
                /\ \A j \in 1..(k - 1) : ~Truthy(pathToNodeId(nodes, tries[j]))

SiblingImport == Imports("f5", RelPath(<<DotDot, Seg("c"), Seg("w")>>))

(* C18: a relative specifier is resolved by trying, in this order, the path
   itself, its normal form, .js -> .ts, .jsx -> .tsx, + .ts, + .tsx, + .js,
   + /index.ts, + /index.js; the first candidate that is an indexed path
   wins. '../c/w' from /distance/v.ts is /c/w.ts if that is indexed, else
   /c/w.tsx if that is indexed, else it is unresolved and counted so. *)
C18_FirstCandidateWins ==
    Calculated =>
        /\ \A i \in RelativeImports : FirstPresentWins(i)
        /\ \A i \in RelativeImports :
                edges[i] = SiblingImport =>
                    resolveImport(nodes, edges[i].fromNodeId, edges[i].toNodeId)
                        = IF HasNode("f3") THEN Id("f3")
                          ELSE IF HasNode("f4") THEN Id("f4")
                          ELSE None
        /\ (edges = <<SiblingImport>> /\ Id("f5") \in FilesOfModules)
                => /\ stats.resolved = (IF HasNode("f3") \/ HasNode("f4") THEN 1 ELSE 0)
                   /\ stats.unresolved = 1 - stats.resolved

(* Both /c/w.ts and /c/w.tsx are indexed and '../c/w' goes to /c/w.ts *)
C18_Witness ==
    /\ Calculated
    /\ edges = <<SiblingImport>>
    /\ Id("f5") \in FilesOfModules
    /\ HasNode("f3") /\ HasNode("f4")
    /\ stats.resolved = 1 /\ stats.crossModule = 1

FileNodeIds == {nodes[i].id : i \in {k \in 1..Len(nodes) : nodes[k].type = "file"}}

(* The IMPORTS edges out of a file of a module whose target is a non-relative
   specifier: it starts with neither ./ nor ../ and is no file node's id *)
BareImports ==
    {i \in ImportEdges :
        /\ fileToModule(modules, edges[i].fromNodeId) # 0
        /\ ~IsRelativeSpecifier(edges[i].toNodeId)
        /\ edges[i].toNodeId \notin FileNodeIds}

OnlyBareImports == ImportEdges # {} /\ ImportEdges = BareImports

(* the indexed file whose path is the specifier of edge i, None without one *)
FileAtSpecifier(i) ==
    LET hits == {k \in 1..Len(nodes) :
                    /\ nodes[k].type = "file" \/ "File" \in nodes[k].labels
                    /\ nodes[k].filePath = edges[i].toNodeId}
    IN IF hits = {} THEN None
       ELSE nodes[CHOOSE k \in hits : \A j \in hits : j <= k].id

NoDependencies ==
    \A m \in ModuleIndexes : modules[m].dependencies = <<>> /\ modules[m].dependents = <<>>

(* C19 as stated: an IMPORTS edge whose target is a non-relative specifier is
   always counted as unresolved and adds no dependency and no dependent, also
   when the path of an indexed file is the specifier. *)
C19_BareSpecifierUnresolved ==
    (Calculated /\ OnlyBareImports)
        => /\ stats.unresolved = Cardinality(BareImports)
           /\ stats.resolved = 0
           /\ NoDependencies

(* C19, amended: an IMPORTS edge out of a file of a module whose target is a
   non-relative specifier is counted as unresolved and adds nothing exactly
   when no indexed file has the specifier as its path; when one has, the edge
   is counted as resolved and goes to that file: if the file is in a module
   with another id, that id becomes a dependency of the source's module and
   the source's module id a dependent of that module. *)
C19_BareSpecifierResolvesByPath ==
    (Calculated /\ OnlyBareImports)
        => /\ stats.unresolved
                = Cardinality({i \in BareImports : FileAtSpecifier(i) = None})
           /\ stats.resolved
                = Cardinality({i \in BareImports : FileAtSpecifier(i) # None})
           /\ \A s \in ModuleIndexes :
                Range(modules[s].dependencies)
                    = {modules[t].id : t \in {u \in ModuleIndexes :
                          /\ modules[u].id # modules[s].id
                          /\ \E i \in BareImports :
                                /\ fileToModule(modules, edges[i].fromNodeId) = s
                                /\ fileToModule(modules, FileAtSpecifier(i)) = u}}
           /\ (\A i \in BareImports : FileAtSpecifier(i) = None) => NoDependencies

(* The specifier /distance/v.ts is the path of an indexed file of another
   module, next to "lodash", which is the path of none *)
C19_Witness ==
    /\ Calculated /\ OnlyBareImports
    /\ Len(edges) = 2
    /\ stats.resolved = 1 /\ stats.unresolved = 1
    /\ \E i \in BareImports : edges[i].toNodeId = Id("lodash")
    /\ \E s, t \in ModuleIndexes :
        /\ modules[t].id \in Range(modules[s].dependencies)
        /\ modules[s].id \in Range(modules[t].dependents)

IsFileNode(n) == n.type = "file" \/ "File" \in n.labels

(* the import of '../../e/q' from /a/b/x.ts: /e/q.ts is the filePath of the
   class node k1 and of no file node *)
ClassPathImport == Imports("f1", RelPath(<<DotDot, DotDot, Seg("e"), Seg("q")>>))

(* C20: only file nodes are in the path indices of calculate(). A node that
   is neither of type FILE nor labelled 'File' is never what a specifier
   resolves to, though it has a filePath; a specifier whose candidates are
   paths of such nodes only stays unresolved and adds no dependency. *)
C20_OnlyFileNodesAreTargets ==
    Calculated =>
        /\ \A i \in ImportEdges :
                LET found == resolveImport(nodes, edges[i].fromNodeId, edges[i].toNodeId)
                IN found # None
                    => \E k \in 1..Len(nodes) : nodes[k].id = found /\ IsFileNode(nodes[k])
        /\ \A i \in ImportEdges :
                edges[i] = ClassPathImport
                    => resolveImport(nodes, edges[i].fromNodeId, edges[i].toNodeId) = None
        /\ (edges = <<ClassPathImport>> /\ Id("f1") \in FilesOfModules)
                => stats.unresolved = 1 /\ stats.resolved = 0 /\ NoDependencies

C20_Witness ==
    /\ Calculated
    /\ edges = <<ClassPathImport>>
    /\ HasNode("k1") /\ HasNode("f1")
    /\ Id("f1") \in FilesOfModules
    /\ stats.unresolved = 1

----------------------------------------------------------------------------
(* aggregate() at every level, over files at several depths below the root
   path, files without a filePath and a file system with package markers *)

ProjectRoot == AbsPath(<<Seg("r")>>)

NoPathFile(id, labels) ==
    [id |-> Id(id), type |-> "file", labels |-> labels, domain |-> "code",
     hasFilePath |-> FALSE, filePath |-> None, startLine |-> 0, endLine |-> 0]

SourceUniverse ==
    << FileNode("g1", <<Seg("r"), Seg("p"), Seg("s"), SegX("x", "ts")>>, 1, 10),
       FileNode("g2", <<Seg("r"), Seg("p"), Seg("s"), Seg("t"), SegX("y", "ts")>>, 1, 10),
       FileNode("g3", <<Seg("r"), Seg("p"), SegX("z", "ts")>>, 1, 10),
       FileNode("g4", <<Seg("r"), SegX("m", "ts")>>, 1, 10),
       FileNode("g5", <<Seg("o"), SegX("u", "ts")>>, 1, 10),
       NoPathFile("g6", {"CodeElement", "File"}),
       NoPathFile("g7", {"CodeElement", "File", "Test"}) >>

IndexInSources(n) == CHOOSE i \in 1..Len(SourceUniverse) : SourceUniverse[i] = n

PackageJson == SegX("package", "json")

TsConfig == SegX("tsconfig", "json")

Markers ==
    { AbsPath(<<Seg("r"), PackageJson>>),
      AbsPath(<<Seg("r"), Seg("p"), TsConfig>>),
      AbsPath(<<Seg("r"), Seg("p"), Seg("s"), PackageJson>>) }

(* The file systems: every set of markers, and one on which every
   fs.access is rejected *)
FileSystems ==
    {[files |-> m, fails |-> FALSE] : m \in SUBSET Markers}
        \cup {[files |-> Markers, fails |-> TRUE]}

(* The values a caller can pass as config.level: the four of the enum and
   one that is none of them *)
Levels == {DIRECTORY, TOP_LEVEL, PACKAGE, CUSTOM, "layer"}

InitA ==
    /\ nodes = <<>>
    /\ edges = <<>>
    /\ aggregationConfig = DefaultConfig
    /\ modules = <<>>
    /\ stats = NoStats
    /\ pc = "files"
    /\ result = NoResult
    /\ fs \in FileSystems
    /\ builds = <<>>

AddSourceFile ==
    /\ pc = "files"
    /\ \E i \in 1..Len(SourceUniverse) :
        /\ \A j \in 1..Len(nodes) : IndexInSources(nodes[j]) < i
        /\ nodes' = Append(nodes, SourceUniverse[i])
    /\ UNCHANGED <<edges, aggregationConfig, modules, stats, pc, result, fs, builds>>

(* await aggregator.aggregate(graph, rootPath, config) *)
AggregateAtLevel ==
    /\ pc = "files"
    /\ \E level \in Levels, includeTests \in BOOLEAN,
          excludePatterns \in {<<>>, DefaultConfig.excludePatterns} :
        LET c == [level |-> level, includeTests |-> includeTests,
                  excludePatterns |-> excludePatterns]
        IN /\ aggregationConfig' = c
           /\ IF aggregateThrows(nodes, ProjectRoot, c)
              THEN modules' = <<>> /\ pc' = "failed"
              ELSE modules' = aggregate(nodes, ProjectRoot, c) /\ pc' = "aggregated"
    /\ UNCHANGED <<nodes, edges, stats, result, fs, builds>>

NextA == AddSourceFile \/ AggregateAtLevel

SpecA == InitA /\ [][NextA]_vars

----------------------------------------------------------------------------
(* Vocabulary of the claims about the levels and failures of aggregate() *)

AggregateReturned == pc = "aggregated"

AggregateFailed == pc = "failed"

RecognisedLevel == aggregationConfig.level \in {DIRECTORY, TOP_LEVEL, PACKAGE}

EveryFileInItsDirectory ==
    \A i \in ModuleIndexes : \A k \in 1..Len(modules[i].files) :
        modules[i].path = dirname(NodeOfFile(modules[i].files[k]).filePath)

FilesWithoutPath ==
    {i \in 1..Len(nodes) : nodes[i].type = "file" /\ ~nodes[i].hasFilePath}

(* C21 as stated: aggregate() with a level that is none of DIRECTORY,
   TOP_LEVEL and PACKAGE fails before a module is constructed and never
   groups by another rule. *)
C21_UnknownLevelFails ==
    (pc # "files" /\ ~RecognisedLevel /\ \E i \in 1..Len(nodes) : nodes[i].hasFilePath)
        => (AggregateFailed /\ modules = <<>>)

(* C21, amended: aggregate() with a level that is none of DIRECTORY, TOP_LEVEL
   and PACKAGE (CUSTOM of the enum, or any other value) does not fail on that
   account: it takes the default branch and groups every file under its
   containing directory, as DIRECTORY does. *)
C21_UnknownLevelGroupsByDirectory ==
    (pc # "files" /\ ~RecognisedLevel)
        => /\ FilesWithoutPath = {} => AggregateReturned
           /\ AggregateReturned => EveryFileInItsDirectory

(* CUSTOM, with /r/p/s/x.ts and /r/p/s/t/y.ts in two modules *)
C21_Witness ==
    /\ AggregateReturned
    /\ aggregationConfig.level = CUSTOM
    /\ \E i, j \in ModuleIndexes :
        /\ i # j
        /\ Id("g1") \in Range(modules[i].files)
        /\ Id("g2") \in Range(modules[j].files)

(* C22: a FILE node without filePath metadata is left out of the grouping and
   does not make aggregate() fail: for every level and every excludePatterns
   aggregate() returns and the node's id is in no module's files. *)
C22_MissingPathIsSkipped ==
    (pc # "files" /\ FilesWithoutPath # {})
        => /\ AggregateReturned
           /\ \A i \in FilesWithoutPath : nodes[i].id \notin FilesOfModules

(* The directories from the file's directory up to rootPath that hold a
   marker the file system lets the aggregator see *)
IsWithin(dir, root) == dir.abs = root.abs /\ IsPrefix(root.segs, dir.segs)

PackageDirsAbove(filePath, root) ==
    {d \in {AbsPath(SubSeq(filePath.segs, 1, k)) : k \in 0..(Len(filePath.segs) - 1)} :
        /\ IsWithin(d, root)
        /\ ~fs.fails
        /\ \E marker \in {PackageJson, TsConfig} :
                AbsPath(Append(d.segs, marker)) \in fs.files}

NearestPackageDir(filePath, root) ==
    LET dirs == PackageDirsAbove(filePath, root)
    IN IF dirs = {} THEN dirname(filePath)
       ELSE CHOOSE d \in dirs : \A e \in dirs : Len(e.segs) <= Len(d.segs)

(* C23: at PACKAGE level the module path of a file is the nearest directory,
   from the file's directory up to rootPath, that holds a package.json or a
   tsconfig.json; without such a directory, and when every file system check
   fails, it is the file's own directory; aggregate() does not fail for the
   file system's sake. *)
C23_NearestPackageOrDirectory ==
    (pc # "files" /\ aggregationConfig.level = PACKAGE)
        => /\ FilesWithoutPath = {} => AggregateReturned
           /\ AggregateReturned =>
                \A i \in ModuleIndexes : \A k \in 1..Len(modules[i].files) :
                    modules[i].path
                        = NearestPackageDir(NodeOfFile(modules[i].files[k]).filePath,
                                            ProjectRoot)
           /\ (AggregateReturned /\ fs.fails) => EveryFileInItsDirectory

(* /r/p/s/package.json: /r/p/s/x.ts and /r/p/s/t/y.ts are one module, while
   /r/p/z.ts, with no marker above it, stays in its directory *)
C23_Witness ==
    /\ AggregateReturned
    /\ aggregationConfig.level = PACKAGE
    /\ fs = [files |-> {AbsPath(<<Seg("r"), Seg("p"), Seg("s"), PackageJson>>)},
             fails |-> FALSE]
    /\ \E i, j \in ModuleIndexes :
        /\ {Id("g1"), Id("g2")} \subseteq Range(modules[i].files)
        /\ modules[i].path = AbsPath(<<Seg("r"), Seg("p"), Seg("s")>>)
        /\ Range(modules[j].files) = {Id("g3")}
        /\ modules[j].path = AbsPath(<<Seg("r"), Seg("p")>>)

----------------------------------------------------------------------------
(* GraphViewBuilder, with the default GraphViewConfig {} *)

(* createNodes: showLabels and includeMetrics are not false, the colour
   scheme and the node size are the default ones *)
createNodes(pmods) ==
    [i \in 1..Len(pmods) |->
        [id |-> pmods[i].id,
         label |-> pmods[i].name,
         type |-> "module",
         color |-> "#4ecdc4",
         width |-> 100,
         height |-> 50,
         metadata |-> [fileCount |-> pmods[i].metrics.fileCount,
                       dependencyCount |-> pmods[i].metrics.dependencyCount,
                       dependentCount |-> pmods[i].metrics.dependentCount,
                       totalLines |-> pmods[i].metrics.totalLines,
                       path |-> pmods[i].path]]]

(* for (const depId of module.dependencies) edges.push({...}) *)
edgesOfModule(module) ==
    [k \in 1..Len(module.dependencies) |->
        [id |-> <<module.id, module.dependencies[k]>>,
         from |-> module.id,
         to |-> module.dependencies[k]]]

RECURSIVE createEdges(_)

(* Mutant: one edge for a module, to its first dependency. *)
createEdges_firstDependency(pmods) ==
    IF pmods = <<>> THEN <<>>
    ELSE (IF edgesOfModule(Head(pmods)) = <<>> THEN <<>>
          ELSE <<Head(edgesOfModule(Head(pmods)))>>) \o createEdges(Tail(pmods))

createEdges(pmods) ==
    IF pmods = <<>> THEN <<>>
    ELSE edgesOfModule(Head(pmods)) \o createEdges(Tail(pmods))

(* build(projection): the nodes, the edges and the two counts of the
   metadata *)
build(pmods) ==
    [nodes |-> createNodes(pmods),
     edges |-> createEdges(pmods),
     metadata |-> [projectionType |-> "module-dependency",
                   moduleCount |-> Len(pmods),
                   dependencyCount |-> Len(createEdges(pmods))]]

(* Module.isRoot, Module.isLeaf *)
isRoot(module) == Len(module.dependents) = 0

isLeaf(module) == Len(module.dependencies) = 0

getRootModules(pmods) == SelectSeq(pmods, isRoot)

getLeafModules(pmods) == SelectSeq(pmods, isLeaf)

----------------------------------------------------------------------------
(* The pipeline on a given graph, followed by what is done with its modules:
   a second calculate(), the projection's queries, the graph view *)

(* The graphs: the first nodes of NodeUniverse, with any list of at most
   MaxEdges edges *)
NodeLists == {SubSeq(NodeUniverse, 1, k) : k \in 0..Len(NodeUniverse)}

EdgeLists == UNION {[1..n -> EdgeUniverse] : n \in 0..MaxEdges}

InitP ==
    /\ nodes \in NodeLists
    /\ edges \in EdgeLists
    /\ aggregationConfig = DefaultConfig
    /\ modules = <<>>
    /\ stats = NoStats
    /\ pc = "graph"
    /\ result = NoResult
    /\ fs = NoFs
    /\ builds = <<>>

(* calculator.calculate(modules, graph) called once more *)
CalculateAgain ==
    /\ pc = "calculated"
    /\ LET r == calculate(modules, nodes, edges) IN
        /\ modules' = r.mods
        /\ stats' = r.stats
    /\ pc' = "recalculated"
    /\ UNCHANGED <<nodes, edges, aggregationConfig, result, fs, builds>>

(* new GraphViewBuilder(logger).build(projection) *)
BuildView ==
    /\ pc = "calculated"
    /\ pc' = "viewed"
    /\ result' = [op |-> "build", moduleId |-> <<>>,
                  value |-> build(getModules(modules)), expanded |-> <<>>]
    /\ UNCHANGED <<nodes, edges, aggregationConfig, modules, stats, fs, builds>>

RootModules ==
    /\ pc = "calculated"
    /\ pc' = "queried"
    /\ result' = [op |-> "getRootModules", moduleId |-> <<>>,
                  value |-> getRootModules(getModules(modules)), expanded |-> <<>>]
    /\ UNCHANGED <<nodes, edges, aggregationConfig, modules, stats, fs, builds>>

LeafModules ==
    /\ pc = "calculated"
    /\ pc' = "queried"
    /\ result' = [op |-> "getLeafModules", moduleId |-> <<>>,
                  value |-> getLeafModules(getModules(modules)), expanded |-> <<>>]
    /\ UNCHANGED <<nodes, edges, aggregationConfig, modules, stats, fs, builds>>

ProjectionCycles ==
    /\ pc = "calculated"
    /\ pc' = "queried"
    /\ result' = [op |-> "getCycles", moduleId |-> <<>>,
                  value |-> getCycles(getModules(modules)),
                  expanded |-> dfsFromEach(getModules(modules), getModules(modules),
                                           NewSearch).expanded]
    /\ UNCHANGED <<nodes, edges, aggregationConfig, modules, stats, fs, builds>>

ModuleDependencies ==
    /\ pc = "calculated"
    /\ pc' = "queried"
    /\ \E i \in 1..Len(modules) :
        result' = [op |-> "getTransitiveDependencies", moduleId |-> modules[i].id,
                   value |-> getTransitiveDependencies(modules[i].id, modules),
                   expanded |-> traverseDependencies(modules[i].id, modules,
                                                     NewClosure).expanded]
    /\ UNCHANGED <<nodes, edges, aggregationConfig, modules, stats, fs, builds>>

ModuleDependents ==
    /\ pc = "calculated"
    /\ pc' = "queried"
    /\ \E i \in 1..Len(modules) :
        result' = [op |-> "getTransitiveDependents", moduleId |-> modules[i].id,
                   value |-> getTransitiveDependents(modules[i].id, modules),
                   expanded |-> traverseDependents(modules[i].id, modules,
                                                   NewClosure).expanded]
    /\ UNCHANGED <<nodes, edges, aggregationConfig, modules, stats, fs, builds>>

NextP ==
    \/ Aggregate
    \/ Calculate
    \/ CalculateAgain
    \/ GetMetrics
    \/ BuildView
    \/ RootModules
    \/ LeafModules
    \/ ProjectionCycles
    \/ ModuleDependencies
    \/ ModuleDependents

SpecP == InitP /\ [][NextP]_vars

----------------------------------------------------------------------------
(* Vocabulary of the claims about the graph view *)

IsViewResult == result.op = "build"

(* The modules the view was built from: those of the projection *)
ViewedModules == getModules(modules)

DependencyCounts == [i \in 1..Len(ViewedModules) |-> Len(ViewedModules[i].dependencies)]

ViewNodeIds == {result.value.nodes[i].id : i \in 1..Len(result.value.nodes)}

(* The edges of the view from one module to one dependency *)
EdgesBetween(from, to) ==
    {k \in 1..Len(result.value.edges) :
        result.value.edges[k].from = from /\ result.value.edges[k].to = to}

(* C24: the graph view has one node per module of the projection, carrying
   the module's id, and exactly one edge per (module, dependency) pair, from
   the module's id to the dependency's id, and no other edge; the number of
   edges is the sum of the modules' dependency counts, and every endpoint
   of an edge is the id of a node of the view. *)
C24_ViewMirrorsTheProjection ==
    IsViewResult =>
        LET view == result.value IN
        /\ Len(view.nodes) = Len(ViewedModules)
        /\ \A i \in 1..Len(ViewedModules) : view.nodes[i].id = ViewedModules[i].id
        /\ NoDuplicates([i \in 1..Len(view.nodes) |-> view.nodes[i].id])
        /\ \A i \in 1..Len(ViewedModules) :
              \A d \in Range(ViewedModules[i].dependencies) :
                  Cardinality(EdgesBetween(ViewedModules[i].id, d)) = 1
        /\ \A k \in 1..Len(view.edges) :
              \E i \in 1..Len(ViewedModules) :
                  /\ view.edges[k].from = ViewedModules[i].id
                  /\ view.edges[k].to \in Range(ViewedModules[i].dependencies)
        /\ Len(view.edges) = Sum(DependencyCounts)
        /\ view.metadata.dependencyCount = Len(view.edges)
        /\ \A k \in 1..Len(view.edges) :
              view.edges[k].from \in ViewNodeIds /\ view.edges[k].to \in ViewNodeIds

(* A view of a projection of three modules or more in which one module has
   two dependencies *)
C24_Witness ==
    /\ IsViewResult
    /\ Len(result.value.nodes) >= 3
    /\ \E i \in 1..Len(ViewedModules) : Len(ViewedModules[i].dependencies) = 2
    /\ Len(result.value.edges) = 2

----------------------------------------------------------------------------
(* Vocabulary of the claim about the edges calculate() skips *)

SourceInNoModule(e) == e.fromNodeId \notin FilesOfModules

(* The file the target of an edge stands for: the target itself when it is
   the id of a file of a module, what the resolution finds otherwise *)
TargetFile(e) ==
    IF e.toNodeId \in FilesOfModules THEN e.toNodeId
    ELSE resolveImport(nodes, e.fromNodeId, e.toNodeId)

TargetUnresolved(e) == ~Truthy(TargetFile(e))

TargetInNoModule(e) == Truthy(TargetFile(e)) /\ TargetFile(e) \notin FilesOfModules

IsSkipped(e) ==
    /\ e.type = "imports"
    /\ (SourceInNoModule(e) \/ TargetUnresolved(e) \/ TargetInNoModule(e))

IsNotSkipped(e) == ~IsSkipped(e)

(* C25: an IMPORTS edge whose source file is in no module, whose target
   cannot be resolved to a file node, or whose resolved target is in no
   module is skipped by calculate() and adds nothing: the modules after
   calculate() are those it returns on the graph without these edges. *)
C25_SkippedEdgesAddNothing ==
    Calculated =>
        modules = calculate(aggregate(nodes, RootPath, aggregationConfig), nodes,
                            SelectSeq(edges, IsNotSkipped)).mods

(* Two modules, an edge out of a file of a module with a target that is not
   resolved, and another whose target resolves to a file of no module *)
C25_Witness ==
    /\ Calculated
    /\ Len(modules) >= 2
    /\ \E i, j \in ImportEdges :
          /\ ~SourceInNoModule(edges[i]) /\ TargetUnresolved(edges[i])
          /\ ~SourceInNoModule(edges[j]) /\ TargetInNoModule(edges[j])

----------------------------------------------------------------------------
(* Two calls of project() on one strategy, over different graphs, taking
   turns at the awaits of aggregate(): groupFilesByLevel awaits
   getModulePathForFile once per file, aggregate awaits groupFilesByLevel,
   project awaits aggregate. Each call has its own locals (codeFiles,
   grouped, modules); the strategy, the aggregator and the calculator hold
   no field but the logger and rootPath. *)

Graph(first, last, gedges) ==
    [nodes |-> SubSeq(NodeUniverse, first, last), edges |-> gedges]

BuildGraphs ==
    { Graph(1, 6, << Imports("f1", Id("f3")), Imports("f3", Id("f1")),
                     Imports("f2", Id("f3")) >>),
      Graph(3, 5, << Imports("f3", Id("f4")),
                     Imports("f4", AbsPath(<<Seg("distance"), SegX("v", "ts")>>)),
                     Imports("f5", RelPath(<<DotDot, Seg("c"), Seg("w")>>)) >>),
      Graph(1, 3, << Imports("f1", Id("f2")), Imports("f3", Id("f1")) >>) }

NewBuild(graph, config) ==
    [graph |-> graph, config |-> config, pc |-> "idle", codeFiles |-> <<>>,
     grouped |-> <<>>, modules |-> <<>>, stats |-> NoStats, metrics |-> <<>>,
     interleaved |-> FALSE]

(* The other call is suspended inside aggregate() *)
OtherIsSuspended(bs, b) ==
    \E o \in 1..Len(bs) : o # b /\ bs[o].pc = "grouping" /\ bs[o].grouped # <<>>

(* Mutant: grouped is a field of the aggregator, the one the first call made. *)
groupedOf_shared(bs, b) == bs[1].grouped

(* const grouped = new Map<string, Node[]>(): a local of each call *)
groupedOf(bs, b) == bs[b].grouped

InitC ==
    /\ nodes = <<>>
    /\ edges = <<>>
    /\ aggregationConfig = DefaultConfig
    /\ modules = <<>>
    /\ stats = NoStats
    /\ pc = "builds"
    /\ result = NoResult
    /\ fs = NoFs
    /\ \E g1, g2 \in BuildGraphs : \E c1, c2 \in Configs :
          /\ g1 # g2
          /\ builds = <<NewBuild(g1, c1), NewBuild(g2, c2)>>

(* project() up to the first await: the three filters of aggregate() *)
StartBuild(b) ==
    /\ builds[b].pc = "idle"
    /\ builds' = [builds EXCEPT
          ![b].pc = "grouping",
          ![b].codeFiles = SelectSeq(builds[b].graph.nodes, LAMBDA n :
                              /\ n.type = "file"
                              /\ n.domain = "code"
                              /\ shouldIncludeFile(n, builds[b].config))]
    /\ UNCHANGED <<nodes, edges, aggregationConfig, modules, stats, pc, result, fs>>

(* One turn of the loop of groupFilesByLevel, after its await; interleaved
   records that the turn was taken while the other call was suspended with
   files already grouped *)
GroupFile(b) ==
    /\ builds[b].pc = "grouping"
    /\ builds[b].codeFiles # <<>>
    /\ builds' = [builds EXCEPT
          ![b].grouped = groupFilesByLevel(<<Head(builds[b].codeFiles)>>, RootPath,
                                           builds[b].config.level,
                                           groupedOf(builds, b)),
          ![b].codeFiles = Tail(@),
          ![b].interleaved = @ \/ OtherIsSuspended(builds, b)]
    /\ UNCHANGED <<nodes, edges, aggregationConfig, modules, stats, pc, result, fs>>

(* aggregate() after its await: one Module per entry of the Map *)
CreateModules(b) ==
    /\ builds[b].pc = "grouping"
    /\ builds[b].codeFiles = <<>>
    /\ builds' = [builds EXCEPT
          ![b].pc = "aggregated",
          ![b].modules = [i \in 1..Len(groupedOf(builds, b)) |->
                            createModule(groupedOf(builds, b)[i].path,
                                         groupedOf(builds, b)[i].files)]]
    /\ UNCHANGED <<nodes, edges, aggregationConfig, modules, stats, pc, result, fs>>

(* project() after its await: calculate(), the projection and its metrics *)
FinishBuild(b) ==
    /\ builds[b].pc = "aggregated"
    /\ LET r == calculate(builds[b].modules, builds[b].graph.nodes,
                          builds[b].graph.edges) IN
        builds' = [builds EXCEPT
          ![b].pc = "done",
          ![b].modules = r.mods,
          ![b].stats = r.stats,
          ![b].metrics = getMetrics(getModules(r.mods))]
    /\ UNCHANGED <<nodes, edges, aggregationConfig, modules, stats, pc, result, fs>>

NextC ==
    \E b \in 1..2 :
        \/ StartBuild(b)
        \/ GroupFile(b)
        \/ CreateModules(b)
        \/ FinishBuild(b)

SpecC == InitC /\ [][NextC]_vars

(* One call of project() run alone on the graph and configuration of build b *)
ModulesAlone(b) ==
    calculate(aggregate(builds[b].graph.nodes, RootPath, builds[b].config),
              builds[b].graph.nodes, builds[b].graph.edges).mods

BuildIds == 1..Len(builds)

(* C26: two builds of project() over different graphs, interleaved at the
   awaits of aggregate(), each end with the modules (files, dependencies,
   dependents, metrics) and the projection metrics of the same build run
   alone; until its modules are created a build's grouping holds files of
   its own graph only. *)
C26_InterleavedBuildsAreIsolated ==
    \A b \in BuildIds :
        /\ \A i \in 1..Len(builds[b].grouped) :
              \A k \in 1..Len(builds[b].grouped[i].files) :
                  builds[b].grouped[i].files[k] \in Range(builds[b].graph.nodes)
        /\ builds[b].pc = "done" =>
              /\ builds[b].modules = ModulesAlone(b)
              /\ builds[b].metrics = getMetrics(getModules(ModulesAlone(b)))

(* Both builds are done, each grouped a file while the other was suspended
   in its grouping, and both have a module with a dependency *)
C26_Witness ==
    /\ Len(builds) = 2
    /\ \A b \in BuildIds :
          /\ builds[b].pc = "done"
          /\ builds[b].interleaved
          /\ \E i \in 1..Len(builds[b].modules) :
                builds[b].modules[i].dependencies # <<>>
    /\ builds[1].modules # builds[2].modules

----------------------------------------------------------------------------
(* Vocabulary of the claims about what calculate() and the queries change *)

(* A module without the four things calculate() writes *)
WithoutDependencyData(m) ==
    [m EXCEPT !.dependencies = <<>>, !.dependents = <<>>,
              !.metrics.dependencyCount = 0, !.metrics.dependentCount = 0]

IsCalculateStep == (pc = "aggregated" /\ pc' = "calculated") \/ pc' = "recalculated"

IsQueryStep == pc = "calculated" /\ pc' \in {"projected", "viewed", "queried"}

(* C27: a step of calculate() keeps the length and order of the module list
   and, of every module, id, name, path, files, metrics.fileCount and
   metrics.totalLines; it changes at most dependencies, dependents,
   metrics.dependencyCount and metrics.dependentCount. A query step
   (getTransitiveDependencies, getTransitiveDependents, getCycles,
   getMetrics, getRootModules, getLeafModules, the graph view) changes no
   module. *)
C27_CalculateWritesDependencyDataOnly ==
    [][ /\ IsCalculateStep =>
              /\ Len(modules') = Len(modules)
              /\ \A i \in 1..Len(modules) :
                    WithoutDependencyData(modules'[i]) = WithoutDependencyData(modules[i])
        /\ IsQueryStep => modules' = modules ]_vars

(* A query has answered on modules that calculate() gave dependencies to,
   one of them with lines counted *)
C27_Witness ==
    /\ pc = "queried"
    /\ result.value # <<>>
    /\ \E i \in ModuleIndexes :
          /\ modules[i].dependencies # <<>>
          /\ modules[i].metrics.dependencyCount > 0
          /\ modules[i].metrics.totalLines > 0
          /\ modules[i].metrics.fileCount > 0

----------------------------------------------------------------------------
(* Vocabulary of the claim about the entries of getCycles *)

(* cycle is a simple cycle of the dependency relation of the modules *)
IsSimpleDependencyCycle(cycle) ==
    /\ cycle # <<>>
    /\ NoDuplicates(cycle)
    /\ Range(cycle) \subseteq IdsOfList
    /\ \A k \in 1..(Len(cycle) - 1) : cycle[k + 1] \in DependenciesOf(cycle[k])
    /\ cycle[1] \in DependenciesOf(cycle[Len(cycle)])

(* C28: every entry of the list getCycles returns is a simple dependency
   cycle: it is not empty, no module occurs in it twice, every module of it
   has the id of the next one among its dependencies and the last has the id
   of the first; a module that lies on no dependency cycle is in no entry. *)
C28_EveryEntryIsACycle ==
    IsCyclesResult =>
        /\ \A i \in 1..Len(result.value) : IsSimpleDependencyCycle(result.value[i])
        /\ \A id \in IdsOfList :
              ~OnCycle(id) => \A i \in 1..Len(result.value) : id \notin Range(result.value[i])

(* The search entered a cycle of two modules from a module that is on no
   cycle, and reported the cycle without it *)
C28_Witness ==
    /\ IsCyclesResult
    /\ Len(modules) = 3
    /\ ~OnCycle(modules[1].id)
    /\ modules[2].id \in DependenciesOf(modules[1].id)
    /\ result.value = << <<modules[2].id, modules[3].id>> >>

----------------------------------------------------------------------------
(* Vocabulary of the claim about the partition aggregate() makes *)

(* The nodes aggregate() groups: FILE nodes of the code domain that pass
   shouldIncludeFile *)
IsEligible(n) ==
    /\ n.type = "file"
    /\ n.domain = "code"
    /\ ~(~aggregationConfig.includeTests /\ "Test" \in n.labels)
    /\ ~MatchesExcludePattern(n)

EligibleIds == {nodes[i].id : i \in {j \in 1..Len(nodes) : IsEligible(nodes[j])}}

(* The places (module, position) where a file id is listed *)
PlacesOf(id) ==
    {<<i, k>> \in ModuleIndexes \X (1..Len(nodes)) :
        k <= Len(modules[i].files) /\ modules[i].files[k] = id}

(* C29: when aggregate() has returned and calculate() has not run yet, every
   eligible file id is listed in exactly one module, once, and no other id
   is listed; no module has an empty file list; metrics.fileCount is the
   length of the file list; dependencies and dependents are empty and both
   counts 0; with no eligible file the module list is empty. *)
C29_AggregatePartitionsEligibleFiles ==
    pc = "aggregated" =>
        /\ \A id \in EligibleIds : Cardinality(PlacesOf(id)) = 1
        /\ FilesOfModules \subseteq EligibleIds
        /\ \A i \in ModuleIndexes :
              /\ modules[i].files # <<>>
              /\ Len(modules[i].files) <= Len(nodes)
              /\ modules[i].metrics.fileCount = Len(modules[i].files)
              /\ modules[i].dependencies = <<>>
              /\ modules[i].dependents = <<>>
              /\ modules[i].metrics.dependencyCount = 0
              /\ modules[i].metrics.dependentCount = 0
        /\ EligibleIds = {} => modules = <<>>

(* Two eligible files in one module, other modules beside it, and two
   nodes that are not eligible: a file of an excluded path or a test file,
   and a class node *)
C29_Witness ==
    /\ pc = "aggregated"
    /\ Len(modules) >= 3
    /\ \E i \in ModuleIndexes : Len(modules[i].files) = 2
    /\ Len(nodes) = Len(NodeUniverse)
    /\ Cardinality(EligibleIds) + 2 = Len(nodes)

----------------------------------------------------------------------------
(* Vocabulary of the claim about calling calculate() again *)

DependencyData(m) ==
    [dependencies |-> m.dependencies, dependents |-> m.dependents,
     dependencyCount |-> m.metrics.dependencyCount,
     dependentCount |-> m.metrics.dependentCount]

IsSecondCalculateStep == pc = "calculated" /\ pc' = "recalculated"

(* C30: a second calculate() on the same modules and graph leaves the
   dependencies, dependents and both counts of every module as the first
   call left them, and no step of calculate() removes an id from the
   dependencies or the dependents of a module. *)
C30_CalculateIsIdempotentAndMonotone ==
    [][ /\ IsSecondCalculateStep =>
              /\ Len(modules') = Len(modules)
              /\ \A i \in 1..Len(modules) :
                    DependencyData(modules'[i]) = DependencyData(modules[i])
        /\ IsCalculateStep =>
              /\ Len(modules') = Len(modules)
              /\ \A i \in 1..Len(modules) :
                    /\ Range(modules[i].dependencies) \subseteq Range(modules'[i].dependencies)
                    /\ Range(modules[i].dependents) \subseteq Range(modules'[i].dependents) ]_vars

(* calculate() has run twice on modules with a dependency in each direction
   between two of them *)
C30_Witness ==
    /\ pc = "recalculated"
    /\ stats.crossModule = 2
    /\ \E i, j \in ModuleIndexes :
          /\ i # j
          /\ modules[j].id \in Range(modules[i].dependencies)
          /\ modules[i].id \in Range(modules[j].dependencies)
          /\ modules[i].metrics.dependentCount = 1

====
